---- MODULE Spec2Model ----
(***************************************************************************)
(* Trade lifecycle engine of laduc_trading (src/ibdb.py, src/ibtrade.py,   *)
(* src/ibutils.py): the supervisor loop of run_ib_database, the broker     *)
(* callbacks of IbDbApp and the peg-chaser threads, over the tables         *)
(* ib_trades, ib_orders, ib_executions and ib_trade_messages and the       *)
(* DataEntry sheet.                                                        *)
(*                                                                         *)
(* Prices are integers (cents).  The value 0 stands for Python's None      *)
(* wherever the code tests a value for truth (u_id, request_id, prices,    *)
(* trade ids).  Time is kept as age classes of ten minutes: the code only  *)
(* compares ages with 5, 10 and 15 minutes.                                *)
(***************************************************************************)
EXTENDS Integers, Sequences, FiniteSets, TLC

\* ------------------------------------------------------------------ bounds
NRows == 1          \* intent rows on the sheet at start-up
MaxOrders == 3      \* rows of ib_orders
MaxExecs == 3       \* rows of ib_executions
MaxSpreadExecs == 4 \* rows of ib_executions when a spread is opened and closed
KeyRows == 2        \* intent rows on a sheet of contracts to tell apart
MaxMsgs == 2        \* rows of ib_trade_messages
MaxBatch == 2       \* executions delivered by one execDetailsEnd
MaxCount == 4       \* recurrence count of a message
MaxTrades == 2      \* rows of ib_trades
MaxRounds == 1      \* restarts of a peg chaser after its timeout

\* a table that has grown stays within its bound
Fits(new, old, max) == Len(new) <= max \/ Len(new) <= Len(old)

\* ------------------------------------------------------- program constants
MAX_REGISTRATION_ATTEMPTS == 3
PCT_BAND == 5
MULTIPLIER == 100
CAPITAL == 1000
PANIC_CLOSE_VALUE == 2
CODE_CANCELLED == 202
CODE_TIMEOUT == 99991
CODE_TACTIC == 99995
CODE_ENTRY_BAND == 99993
CODE_PRICING == 99992
\* mutant of MAX_202: the limit is met one cancellation early
MAX_202_Two == 3 - 1

MAX_202 == 3
CODE_IGNORED == 2104
STK_NBBO_OFFSET == 2
MAX_CORE_ERRORS == 7

\* ----------------------------------------------------------------- helpers
Abs(x) == IF x < 0 THEN -x ELSE x

Min(a, b) == IF a < b THEN a ELSE b

\* Python 3 round(n/d, 0) of a non-negative quotient: half to even.
Round(n, d) ==
  LET q == n \div d
      r == n % d
  IN  IF 2 * r < d THEN q
      ELSE IF 2 * r > d THEN q + 1
      ELSE IF q % 2 = 0 THEN q ELSE q + 1

RECURSIVE SumSeq(_)
SumSeq(s) == IF s = <<>> THEN 0 ELSE Head(s) + SumSeq(Tail(s))

Range(s) == {s[i] : i \in DOMAIN s}

\* ------------------------------------------------------------- the shapes
(* One record per kind of intent row the sheet can hold: entry is column 9  *)
(* in cents (negative: a short, 0: blank), size column 3, und column 6,     *)
(* targets and stops columns 8 and 7, old: DATE_ENTERED lies more than two  *)
(* days back, expires: the option contract expires today, legs: the legs    *)
(* of a BAG tactic as utils.get_parsed_bag_tactic and                       *)
(* ibutils.get_bag_contract leave them, tactic: what Trade._parse_tactic    *)
(* does on column 4: "parsed", "unparsable" (a parser raises IndexError,    *)
(* ValueError, KeyError or TypeError), "no_side" (STOCK without LONG or     *)
(* SHORT: AttributeError).                                                   *)
Leg(action, ratio, strike) ==
  [action |-> action, ratio |-> ratio, expiry |-> 20190125,
   strike |-> strike, right |-> "C"]

Shape(sec, entry, targets, stops, old, expires, legs) ==
  [sec |-> sec, symbol |-> "NVDA", size |-> 1, entry |-> entry, und |-> 10,
   targets |-> targets, stops |-> stops, old |-> old, expires |-> expires,
   expiry |-> 20190125, strike |-> 150, right |-> "C", legs |-> legs,
   tactic |-> "parsed"]

(* Contract.key: the fields the key string is built from.  A stock or cash *)
(* key is the bare symbol, an option key adds expiry, strike and right, a  *)
(* BAG key the action and ratio of each combo leg.                         *)
ContractKey(sec, symbol, expiry, strike, right, legs) ==
  IF sec = "OPT"
    THEN [k |-> "OPT", symbol |-> symbol, expiry |-> expiry,
          strike |-> strike, right |-> right, legs |-> <<>>]
  ELSE IF sec = "BAG"
    THEN [k |-> "BAG", symbol |-> symbol, expiry |-> 0, strike |-> 0,
          right |-> "", legs |-> [i \in DOMAIN legs |->
                                    <<legs[i].action, legs[i].ratio>>]]
  ELSE [k |-> "SYM", symbol |-> symbol, expiry |-> 0, strike |-> 0,
        right |-> "", legs |-> <<>>]

ShapeKey(sh) ==
  ContractKey(sh.sec, sh.symbol, sh.expiry, sh.strike, sh.right, sh.legs)

LegKey(symbol, leg) ==
  ContractKey("OPT", symbol, leg.expiry, leg.strike, leg.right, <<>>)

Shapes ==
  { Shape("STK", 50000, <<11, 12>>, <<9>>, FALSE, FALSE, <<>>),
    Shape("OPT", -500, <<9>>, <<11>>, FALSE, TRUE, <<>>),
    Shape("OPT", 0, <<11>>, <<9>>, FALSE, FALSE, <<>>),
    Shape("BAG", 300, <<11, 12>>, <<9>>, FALSE, TRUE,
          <<Leg("BUY", 1, 150), Leg("SELL", 2, 160)>>),
    Shape("STK", 50000, <<11>>, <<9>>, TRUE, FALSE, <<>>) }

VARIABLES
  sheet,        \* the DataEntry sheet: a sequence of rows
  trades,       \* ib_trades, the id of a trade is its index
  orders,       \* ib_orders, the id of an order is its index
  executions,   \* ib_executions, in insertion order
  messages,     \* ib_trade_messages
  last_id,      \* IbApp.next_id: last_id of ib_cfg.json
  uid_clock,    \* the millisecond clock utils.get_uid reads
  pc,           \* the phase run_ib_database runs next
  threads,      \* _THREADS and the position of each peg-chaser thread
  market,       \* "pre" | "open" | "closed" | "over": the wall clock is before
                \* the open, in regular hours, in the 30 minutes after the
                \* close, past them
  opened30,     \* the market has been open for 30 minutes or more
  noon,         \* the wall clock is in 12:00-12:05 US/Eastern
  fills,        \* history: per order id, how often sync_fills reconciled it
  core_errors,  \* run_ib_database: the phases that raised so far
  waiting_test, \* run_ib_database: the pause of the test mode was logged
  test_mode,    \* the sheet is in test mode (ibtrade.get_sheet_test_mode)
  positions,    \* ib_positions: contract key, position, valid, checked
  subs,         \* ib_mkt_data_subscriptions: the contract keys whose
                \* subscription has a request id
  active,       \* ib_mkt_data_subscriptions: the contract keys whose
                \* subscription has active = 1
  app,          \* ib.IbApp.close_trade: the trade it closes, the portfolio,
                \* and what the call has done
  wire          \* the gateway: the order place_order has sent and not yet
                \* committed, the request ids it has answered with an error

vars ==<<sheet, trades, orders, executions, messages, last_id, uid_clock,
          pc, threads, market, opened30, noon, fills, core_errors,
          waiting_test, test_mode, positions, subs, active, app, wire>>

Phases == <<"sync_gsheet_trades", "request_ib_contract_ids",
            "sync_price_subscriptions", "sync_pre_check_trades",
            "sync_peg_limit_orders", "sync_opening_orders", "evaluate_trades",
            "place_orders", "maybe_request_executions", "sync_fills",
            "process_trade_messages", "delete_old_prices",
            "delete_old_positions", "sync_positions", "sync_timed_out_orders",
            "sync_expired_trades">>

NextPhase(p) ==
  LET i == CHOOSE j \in DOMAIN Phases : Phases[j] = p
  IN  IF i = Len(Phases) THEN Phases[1] ELSE Phases[i + 1]

(* run_ib_database sleeps EVAL_INTERVAL seconds between two cycles, or has   *)
(* stopped: the callbacks of the gateway, the chaser threads, the operator   *)
(* and the clock act then; a cycle itself takes no time.                     *)
Sleeping == pc \in {"sync_gsheet_trades", "dead"}

\* ---------------------------------------------------- IbTrade properties
TradeIds == DOMAIN trades
OrderIds == DOMAIN orders

IsLong(t) == IF t.sec = "BAG" THEN TRUE ELSE t.size > 0

IsShort(t) == IF t.sec = "BAG" THEN FALSE ELSE t.size < 0

OpeningAction(t) == IF IsLong(t) THEN "BUY" ELSE "SELL"

ClosingAction(t) == IF IsShort(t) THEN "BUY" ELSE "SELL"

\* get_orders_by_action, as the set of order ids
OrdersByAction(os, tid, action) ==
  {o \in DOMAIN os : /\ os[o].trade = tid
                     /\ os[o].action = action
                     /\ os[o].status # "error"
                     /\ os[o].exclude = 0}

OrdersCompletedByAction(os, tid, action) ==
  {o \in DOMAIN os : /\ os[o].trade = tid
                     /\ os[o].action = action
                     /\ os[o].status = "complete"
                     /\ os[o].exclude = 0}

RECURSIVE SumQty(_, _)
SumQty(os, ids) ==
  IF ids = {} THEN 0
  ELSE LET o == CHOOSE x \in ids : TRUE
       IN  os[o].qty + SumQty(os, ids \ {o})

RECURSIVE SumAbsQty(_, _)
SumAbsQty(os, ids) ==
  IF ids = {} THEN 0
  ELSE LET o == CHOOSE x \in ids : TRUE
       IN  Abs(os[o].qty) + SumAbsQty(os, ids \ {o})

BoughtQty(os, tid) == SumAbsQty(os, OrdersCompletedByAction(os, tid, "BUY"))

SoldQty(os, tid) == SumAbsQty(os, OrdersCompletedByAction(os, tid, "SELL"))

\* IbTrade.total_qty is None when this is false
HasTotalQty(os, ts, tid) ==
  \/ OrdersByAction(os, tid, OpeningAction(ts[tid])) # {}
  \/ /\ ts[tid].size # 0
     /\ (IF ts[tid].og # 0 THEN ts[tid].og ELSE ts[tid].entry) # 0

TotalQty(os, ts, tid) ==
  LET t == ts[tid]
      opening == OrdersByAction(os, tid, OpeningAction(t))
      entry == Abs(IF t.og # 0 THEN t.og ELSE t.entry)
  IN  IF opening # {} THEN SumQty(os, opening)
      ELSE IF t.sec \in {"BAG", "OPT"}
        THEN Round(Abs(t.size) * CAPITAL * 100, entry * MULTIPLIER)
      ELSE Round(Abs(t.size) * CAPITAL * 100, entry)

LeftQty(os, ts, tid) ==
  IF IsShort(ts[tid]) THEN TotalQty(os, ts, tid) - BoughtQty(os, tid)
  ELSE TotalQty(os, ts, tid) - SoldQty(os, tid)

HasPendingOrder(os, tid) ==
  \E o \in DOMAIN os : os[o].trade = tid /\ os[o].status \in {"ready", "placed"}

HasOpeningOrder(os, ts, tid) ==
  OrdersByAction(os, tid, OpeningAction(ts[tid])) # {}

HasOpeningOrderComplete(os, ts, tid) ==
  OrdersCompletedByAction(os, tid, OpeningAction(ts[tid])) # {}

HasValidLegs(t) ==
  IF t.sec # "BAG" THEN TRUE
  ELSE \A i \in DOMAIN t.legs : t.legs[i].con_id

\* -------------------------------------------------------------- register_*
NewOrder(tid, uid, contract, action, qty, exclude, type, tif, price) ==
  [trade |-> tid, u_id |-> uid, contract |-> contract, action |-> action,
   qty |-> qty, status |-> "ready", request_id |-> 0, exclude |-> exclude,
   type |-> type, tif |-> tif, price |-> price, age |-> 0, filled |-> "no"]

\* register_order: a ready order on the trade's own contract
RegisterOrder(os, ts, tid, action, qty, type, tif, price) ==
  Append(os, NewOrder(tid, ts[tid].u_id, ts[tid].contract, action, qty, 0,
                      type, tif, price))

\* _register_trade_leg for every leg of the tactic, in sequence order
TradeLegs(sh) ==
  [i \in DOMAIN sh.legs |->
     [contract |-> LegKey(sh.symbol, sh.legs[i]),
      action |-> sh.legs[i].action, ratio |-> sh.legs[i].ratio,
      con_id |-> FALSE, attempts |-> 0]]

(* _register_trade_from_trade_obj for sheet row i, with Trade.from_gsheet_row, *)
(* Trade._determine_direction and Trade.init_new_trade.  st carries the      *)
(* sheet, ib_trades and the uid clock through the rows of one ingest.        *)
RegisterTrade(st, i) ==
  LET row == st.sheet[i]
      sh == row.shape
      matched == /\ row.u_id # 0
                 /\ \E t \in DOMAIN st.trades : st.trades[t].u_id = row.u_id
      fresh == row.u_id = 0 /\ ~sh.old
      uid == IF fresh THEN st.uid + 1 ELSE row.u_id
      short == row.entry < 0
      og == IF row.u_id = 0 THEN row.entry ELSE 0
      t == [row |-> i, u_id |-> uid, status |-> "pre-open-check",
            sec |-> sh.sec,
            size |-> IF short THEN -Abs(sh.size) ELSE sh.size,
            og |-> og,
            entry |-> IF fresh THEN 0 ELSE Abs(row.entry),
            exit |-> 0, exited |-> row.exited, parent |-> 0,
            und |-> sh.und, targets |-> sh.targets, stops |-> sh.stops,
            legs |-> TradeLegs(sh), contract |-> ShapeKey(sh),
            expires |-> sh.expires]
  IN  IF matched THEN st
      ELSE [sheet |-> IF fresh
                        THEN [st.sheet EXCEPT ![i].u_id = uid, ![i].entry = 0]
                        ELSE st.sheet,
            trades |-> Append(st.trades, t),
            uid |-> IF fresh THEN st.uid + 1 ELSE st.uid]

(* Trade.parse_tactic for a trade whose sheet attribute is trade_sheet (0:   *)
(* None).  The handler of the four caught exceptions reads                  *)
(* self.sheet.invalid_trades, which raises AttributeError on None; the       *)
(* AttributeError of _parse_tactic is not caught at all.                     *)
ParseTactic(tactic, trade_sheet) ==
  IF tactic = "parsed" THEN "valid"
  ELSE IF tactic = "no_side" THEN "raise"
  ELSE IF trade_sheet = 0 THEN "raise"
  ELSE "invalid"

(* get_data_entry_trades(rows=rows) builds every Trade with trade_sheet     *)
(* None before any of them is registered: one raising row ends the ingest.   *)
IngestRaises(sh) ==
  \E i \in DOMAIN sh :
     /\ ~sh[i].exited
     /\ ParseTactic(sh[i].shape.tactic, 0) = "raise"

\* get_data_entry_trades: the rows sync_gsheet_trades ingests
IngestFilter(row) == ~row.exited

RECURSIVE RegisterTrades(_, _)
RegisterTrades(st, i) ==
  IF i > Len(st.sheet) THEN st
  ELSE IF IngestFilter(st.sheet[i]) THEN RegisterTrades(RegisterTrade(st, i), i + 1)
  ELSE RegisterTrades(st, i + 1)

\* ibtrade.get_data_entry_trades_closed: the rows closed by hand on the sheet
ClosedFilter(row) == row.exited /\ row.u_id # 0

(* sync_gsheet_manually_closed_trades over the closed rows from index i on.   *)
(* A NULL u_id among the pending orders makes the NOT IN filter of the query *)
(* reject every trade.  total_qty None raises a TypeError (ok = FALSE).       *)
ManualCloseMatch(sh, ts, os, tid) ==
  LET pending == {os[o].u_id : o \in {x \in DOMAIN os :
                                        os[x].status \in {"ready", "placed"}}}
  IN  /\ \E i \in DOMAIN sh : ClosedFilter(sh[i]) /\ sh[i].u_id = ts[tid].u_id
      /\ ts[tid].u_id \notin pending
      /\ 0 \notin pending
      /\ ts[tid].status = "open"
      /\ ~ts[tid].exited

RECURSIVE ManualClose(_, _, _, _)
ManualClose(ts, os, todo, ok) ==
  IF todo = {} \/ ~ok THEN [orders |-> os, ok |-> ok]
  ELSE LET tid == CHOOSE t \in todo : \A u \in todo : t <= u
           act == IF IsLong(ts[tid]) THEN "SELL" ELSE "BUY"
           done == IF IsLong(ts[tid]) THEN SoldQty(os, tid)
                   ELSE BoughtQty(os, tid)
       IN  IF ~HasTotalQty(os, ts, tid)
             THEN ManualClose(ts, os, todo \ {tid}, FALSE)
           ELSE ManualClose(ts,
                  RegisterOrder(os, ts, tid, act,
                                TotalQty(os, ts, tid) - done, "MKT", "", 0),
                  todo \ {tid}, ok)

\* ------------------------------------------------------ register_trade_msg
Msg(tid, code, req, detail) ==
  [trade |-> tid, code |-> code, status |-> "open", count |-> 1,
   request_id |-> req, text |-> <<code, detail>>]

RegisterTradeMsg(ms, m) ==
  LET existing == {i \in DOMAIN ms : /\ ms[i].trade = m.trade
                                     /\ ms[i].text = m.text
                                     /\ ms[i].status = "open"}
  IN  IF existing # {}
        THEN LET i == CHOOSE x \in existing : \A y \in existing : x <= y
             IN  [ms EXCEPT ![i].count = @ + 1]
      ELSE Append(ms, m)

\* ------------------------------------------------------------ executions
\* _split_exec_correction_id: an exec_id is the sequence of its dotted parts
SplitExecCorrectionId(exec_id) ==
  IF Len(exec_id) = 1 THEN [base |-> exec_id, corr |-> 0]
  ELSE [base |-> SubSeq(exec_id, 1, Len(exec_id) - 1),
        corr |-> exec_id[Len(exec_id)]]

\* get_executions_by_order_id, as indices into ib_executions
ExecutionsByOrderId(ex, rid) ==
  IF rid = 0 THEN {} ELSE {i \in DOMAIN ex : ex[i].order_id = rid}

\* IbOrder.get_valid_executions: per base_exec_id the row latest in utc_time
ValidExecutions(ex, ids) ==
  {i \in ids : \A j \in ids :
     ex[j].base_exec_id = ex[i].base_exec_id =>
       \/ ex[j].utc_time < ex[i].utc_time
       \/ ex[j].utc_time = ex[i].utc_time /\ j <= i}

MaxCumQty(ex, ids) ==
  LET i == CHOOSE x \in ids : \A y \in ids : ex[y].cum_qty <= ex[x].cum_qty
  IN  ex[i].cum_qty

\* the executions get_executed_bag_qty accepts for one leg
LegExecs(ex, ids, leg, qty) ==
  {i \in ids : ex[i].contract = leg.contract /\ ex[i].cum_qty = qty * leg.ratio}

\* the shares executed on one leg: the largest cum_qty of its executions
LegShares(ex, ids, leg) ==
  LET sub == {i \in ids : ex[i].contract = leg.contract}
  IN  IF sub = {} THEN 0 ELSE MaxCumQty(ex, sub)

\* mutant of ExecutedBagQty: the whole spreads that every leg has executed
ExecutedBagQty_Min(ex, ids, legs, qty) ==
  CHOOSE q \in 0..qty :
    /\ \A l \in DOMAIN legs : q * legs[l].ratio <= LegShares(ex, ids, legs[l])
    /\ \A r \in 0..qty :
         (\A l \in DOMAIN legs : r * legs[l].ratio <= LegShares(ex, ids, legs[l]))
           => r <= q

\* IbOrder.get_executed_bag_qty
ExecutedBagQty(ex, ids, legs, qty) ==
  IF \A l \in DOMAIN legs : LegExecs(ex, ids, legs[l], qty) # {} THEN qty ELSE 0

\* mutant of ExecutedQty: any stored execution counts as the whole order
ExecutedQty_AnyFill(ex, ts, o, ids) ==
  IF ids = {} THEN 0 ELSE o.qty

\* IbOrder.get_executed_qty
ExecutedQty(ex, ts, o, ids) ==
  IF ids = {} THEN 0
  ELSE IF o.trade # 0 /\ ts[o.trade].sec = "BAG"
    THEN ExecutedBagQty(ex, ids, ts[o.trade].legs, o.qty)
  ELSE MaxCumQty(ex, ids)

LatestByTime(ex, ids) ==
  CHOOSE i \in ids : \A j \in ids :
    \/ ex[j].utc_time < ex[i].utc_time
    \/ ex[j].utc_time = ex[i].utc_time /\ j <= i

RECURSIVE BagPrice(_, _, _, _, _)
BagPrice(ex, ids, legs, qty, l) ==
  IF l > Len(legs) THEN 0
  ELSE LET sub == LegExecs(ex, ids, legs[l], qty)
           e == ex[LatestByTime(ex, sub)]
           first == ex[CHOOSE i \in sub : \A j \in sub : i <= j]
           p == e.avg_price * legs[l].ratio
       IN  (IF first.side = "SLD" THEN -p ELSE p)
             + BagPrice(ex, ids, legs, qty, l + 1)

\* IbOrder.get_executed_price, for a non-empty ids
ExecutedPrice(ex, ts, o, ids) ==
  IF o.trade # 0 /\ ts[o.trade].sec = "BAG"
    THEN IF \A l \in DOMAIN ts[o.trade].legs :
              LegExecs(ex, ids, ts[o.trade].legs[l], o.qty) # {}
           THEN BagPrice(ex, ids, ts[o.trade].legs, o.qty, 1)
         ELSE 0
  ELSE LET i == CHOOSE x \in ids :
                  /\ \A y \in ids : ex[y].cum_qty <= ex[x].cum_qty
                  /\ \A y \in ids : ex[y].cum_qty = ex[x].cum_qty => y <= x
       IN  ex[i].avg_price

\* ------------------------------------------------------ sync_opening_orders
\* the limit prices get_trade_limit_price can return; 0: no price in ib_prices
LimitPrices == {0, 100}

(* The age of an order, from date_added: 0 under 10 minutes, 1 from 10 to   *)
(* 15 minutes, 2 over 15 minutes, 3 over 5 days.                            *)
\* x NOT IN (ids) of SQL: never true when ids holds a NULL
NotIn(x, ids) == 0 \notin ids /\ x \notin ids

\* the order both sync_opening_orders and evaluate_trades build when
\* USE_LMT_ORDERS is set
LmtOrder(os, ts, tid, action, qty, lp) ==
  IF ts[tid].sec = "STK"
    THEN RegisterOrder(os, ts, tid, action, qty, "LMT", "PEG MID", 0)
  ELSE RegisterOrder(os, ts, tid, action, qty, "LMT", "", lp)

\* get_trade_market_price registers 99992 when it finds no price
NoPriceMsg(ms, tid, lp) ==
  IF lp = 0 THEN RegisterTradeMsg(ms, Msg(tid, CODE_PRICING, 0, 0)) ELSE ms

\* the limit price is only asked for when the order is not a stock order
PriceMsg(ms, ts, tid, lp) ==
  IF ts[tid].sec # "STK" THEN NoPriceMsg(ms, tid, lp) ELSE ms

OpeningTrades(ts, os) ==
  {t \in DOMAIN ts :
     /\ ~ts[t].exited
     /\ ts[t].status = "open"
     /\ ts[t].u_id # 0
     /\ NotIn(t, {os[o].trade : o \in {x \in DOMAIN os : /\ os[x].exclude = 0
                                                         /\ os[x].age < 3}})
     /\ ts[t].entry = 0
     /\ ts[t].og # 0
     /\ HasValidLegs(ts[t])}

RECURSIVE OpenTrades(_, _, _, _)
OpenTrades(st, ts, todo, lp) ==
  IF todo = {} THEN st
  ELSE LET tid == CHOOSE t \in todo : \A u \in todo : t <= u
       IN  OpenTrades(
             [orders |-> LmtOrder(st.orders, ts, tid, OpeningAction(ts[tid]),
                                  TotalQty(st.orders, ts, tid), lp),
              messages |-> PriceMsg(st.messages, ts, tid, lp)],
             ts, todo \ {tid}, lp)

sync_opening_orders ==
  /\ pc = "sync_opening_orders"
  /\ \E lp \in LimitPrices :
       LET st == OpenTrades([orders |-> orders, messages |-> messages],
                            trades, OpeningTrades(trades, orders), lp)
       IN  /\ Fits(st.orders, orders, MaxOrders)
           /\ Fits(st.messages, messages, MaxMsgs)
           /\ orders' = st.orders
           /\ messages' = st.messages
  /\ pc' = NextPhase(pc)
  /\ UNCHANGED <<core_errors, waiting_test, test_mode, positions, subs, active, app, wire>>
  /\ UNCHANGED <<sheet, trades, executions, last_id, uid_clock, threads,
                 market, opened30, noon, fills>>

\* ---------------------------------------------------------- evaluate_trades
\* the prices of the underlying ib_prices can hold; 0: no fresh price
UndPrices == {9, 10, 12}

\* IbOrder.get_last_execution, as an index, 0 when there is none
LastExecution(ex, o) ==
  LET ids == ExecutionsByOrderId(ex, o.request_id)
  IN  IF ids = {} THEN 0 ELSE LatestByTime(ex, ids)

ExitPrice(ex, ts, o) ==
  IF ts[o.trade].sec = "BAG"
    THEN ExecutedPrice(ex, ts, o,
           ValidExecutions(ex, ExecutionsByOrderId(ex, o.request_id)))
  ELSE ex[LastExecution(ex, o)].avg_price

IsTargetExit(t, exit) ==
  IF IsShort(t) THEN Abs(exit) < t.entry
  ELSE IF t.sec = "BAG" /\ t.size < 0 THEN exit + t.entry > 0
  ELSE Abs(exit) >= t.entry

\* IbTrade.get_target_and_stop_orders
TargetOrders(os, ts, ex, tid) ==
  {o \in OrdersCompletedByAction(os, tid, ClosingAction(ts[tid])) :
     LastExecution(ex, os[o]) # 0 /\ IsTargetExit(ts[tid], ExitPrice(ex, ts, os[o]))}

StopOrders(os, ts, ex, tid) ==
  {o \in OrdersCompletedByAction(os, tid, ClosingAction(ts[tid])) :
     LastExecution(ex, os[o]) # 0 /\ ~IsTargetExit(ts[tid], ExitPrice(ex, ts, os[o]))}

\* mutant of TargetQty: the stops that have executed are not looked at
TargetQty_IgnoresStops(os, ts, ex, tid) ==
  LET expected == Len(ts[tid].targets)
  IN  IF Cardinality(TargetOrders(os, ts, ex, tid)) = expected - 1
        THEN LeftQty(os, ts, tid)
      ELSE Round(TotalQty(os, ts, tid), expected)

TargetQty(os, ts, ex, tid) ==
  LET expected == Len(ts[tid].targets)
  IN  IF \/ StopOrders(os, ts, ex, tid) # {}
         \/ Cardinality(TargetOrders(os, ts, ex, tid)) = expected - 1
        THEN LeftQty(os, ts, tid)
      ELSE Round(TotalQty(os, ts, tid), expected)

\* mutant of StopQty: twice the quantity of the trade
StopQty_Twice(os, ts, ex, tid) == 2 * TotalQty(os, ts, tid)

StopQty(os, ts, ex, tid) ==
  LET expected == Len(ts[tid].stops)
  IN  IF \/ TargetOrders(os, ts, ex, tid) # {}
         \/ Cardinality(StopOrders(os, ts, ex, tid)) = expected - 1
        THEN LeftQty(os, ts, tid)
      ELSE Round(TotalQty(os, ts, tid), expected)

\* get_next_target / get_next_stop: the price, 0 for (None, None)
NextOf(os, ts, tid, prices) ==
  LET idx == Cardinality(OrdersByAction(os, tid, ClosingAction(ts[tid])))
  IN  IF idx + 1 <= Len(prices) THEN prices[idx + 1] ELSE 0

\* mutant of LockIds: only the pause after a fill locks a trade
LockIds_RecentFills(os) ==
  {os[o].trade : o \in {x \in DOMAIN os :
                          os[x].filled = "recent" /\ os[x].exclude = 0}}

\* mutant of LockIds: only an order that is ready or placed locks a trade
LockIds_Pending(os) ==
  {os[o].trade : o \in {x \in DOMAIN os : os[x].status \in {"ready", "placed"}}}

\* the trades the query of evaluate_trades returns
LockIds(os) ==
  {os[o].trade : o \in {x \in DOMAIN os :
                          \/ os[x].status \in {"ready", "placed"}
                          \/ os[x].filled = "recent" /\ os[x].exclude = 0}}

EvalTrades(ts, os) ==
  {t \in DOMAIN ts : /\ ~ts[t].exited
                     /\ ts[t].u_id # 0
                     /\ ts[t].entry # 0
                     /\ (LockIds(os) # {} => NotIn(t, LockIds(os)))}

\* the bid get_trade_limit_price(use_mid=False) returns for a spread, in
\* cents; 0: no price
BidPrices == {0, 2, 3}

(* The closing decision of one iteration of evaluate_trades at the price p   *)
(* of the underlying: whether an action was chosen, and its quantity.        *)
NoHit == [action |-> FALSE, qty |-> 0]

Hit(qty) == [action |-> TRUE, qty |-> qty]

Decision(os, ts, ex, tid, p) ==
  LET t == ts[tid]
      target == NextOf(os, ts, tid, t.targets)
      stop == NextOf(os, ts, tid, t.stops)
      profits_up == t.targets[1] > t.und
      profits_down == t.targets[1] < t.und
  IN  IF ~IsLong(t) /\ ~IsShort(t) THEN NoHit
      ELSE IF profits_up
        THEN IF p >= target THEN Hit(TargetQty(os, ts, ex, tid))
             ELSE IF stop # 0 /\ p <= stop THEN Hit(StopQty(os, ts, ex, tid))
             ELSE NoHit
      ELSE IF profits_down
        THEN IF p <= target THEN Hit(TargetQty(os, ts, ex, tid))
             ELSE IF stop # 0 /\ p >= stop THEN Hit(StopQty(os, ts, ex, tid))
             ELSE NoHit
      ELSE NoHit

EvalTrade(st, ts, ex, tid, p, bid, lp, mkt_open) ==
  LET t == ts[tid]
      os == st.orders
      left == BoughtQty(os, tid) - SoldQty(os, tid)
      hit == Decision(os, ts, ex, tid, p)
      probe == ~hit.action /\ t.sec = "BAG" /\ t.entry > 0 /\ mkt_open
      panic == probe /\ bid <= PANIC_CLOSE_VALUE
      qty0 == IF panic THEN LeftQty(os, ts, tid) ELSE hit.qty
      qty == IF Abs(qty0) > Abs(left) THEN left ELSE qty0
      probed == IF probe /\ bid = 0
                  THEN RegisterTradeMsg(st.messages, Msg(tid, CODE_PRICING, 0, 0))
                ELSE st.messages
  IN  IF p = 0 \/ NextOf(os, ts, tid, t.targets) = 0 THEN st
      ELSE IF IsLong(t) /\ left <= 0 THEN st
      ELSE IF IsShort(t) /\ left >= 0 THEN st
      ELSE IF ~(hit.action \/ panic) \/ qty0 = 0 \/ ~mkt_open
        THEN [st EXCEPT !.messages = probed]
      ELSE IF panic
        THEN [orders |-> RegisterOrder(os, ts, tid, "SELL", qty, "MKT", "", 0),
              messages |-> probed]
      ELSE [orders |-> LmtOrder(os, ts, tid, ClosingAction(t), qty, lp),
            messages |-> PriceMsg(probed, ts, tid, lp)]

RECURSIVE EvalAll(_, _, _, _, _, _, _, _)
EvalAll(st, ts, ex, todo, p, bid, lp, mkt_open) ==
  IF todo = {} THEN st
  ELSE LET tid == CHOOSE t \in todo : \A u \in todo : t <= u
       IN  EvalAll(EvalTrade(st, ts, ex, tid, p, bid, lp, mkt_open),
                   ts, ex, todo \ {tid}, p, bid, lp, mkt_open)

evaluate_trades ==
  /\ pc = "evaluate_trades"
  /\ \E p \in UndPrices, bid \in BidPrices, lp \in LimitPrices :
       LET st == EvalAll([orders |-> orders, messages |-> messages], trades,
                         executions, EvalTrades(trades, orders), p, bid, lp,
                         market = "open")
       IN  /\ Fits(st.orders, orders, MaxOrders)
           /\ Fits(st.messages, messages, MaxMsgs)
           /\ orders' = st.orders
           /\ messages' = st.messages
  /\ pc' = NextPhase(pc)
  /\ UNCHANGED <<core_errors, waiting_test, test_mode, positions, subs, active, app, wire>>
  /\ UNCHANGED <<sheet, trades, executions, last_id, uid_clock, threads,
                 market, opened30, noon, fills>>

\* ------------------------------------------------------------- place_orders
\* mutant of CanPlace: place_order does not look at the combo legs
CanPlace_Always(ts, o) == TRUE

\* place_order returns False for a BAG whose combo legs lack a conId
CanPlace(ts, o) ==
  o.trade = 0 \/ ts[o.trade].sec # "BAG" \/ HasValidLegs(ts[o.trade])

\* place_order: IbApp.next_id for an order without request id, status placed
RECURSIVE PlaceAll(_, _, _)
PlaceAll(st, ts, todo) ==
  IF todo = {} THEN st
  ELSE LET oid == CHOOSE o \in todo : \A u \in todo : o <= u
           o == st.orders[oid]
           fresh == o.request_id = 0
           rid == IF fresh THEN st.last_id + 1 ELSE o.request_id
       IN  IF ~CanPlace(ts, o) THEN PlaceAll(st, ts, todo \ {oid})
           ELSE PlaceAll([orders |-> [st.orders EXCEPT ![oid].request_id = rid,
                                                       ![oid].status = "placed"],
                          last_id |-> IF fresh THEN rid ELSE st.last_id],
                         ts, todo \ {oid})

place_orders ==
  /\ pc = "place_orders"
  /\ wire.sent.order = 0
  /\ LET todo == IF market = "open"
                   THEN {o \in DOMAIN orders : orders[o].status = "ready"}
                 ELSE {}
         st == PlaceAll([orders |-> orders, last_id |-> last_id], trades, todo)
     IN  /\ orders' = st.orders
         /\ last_id' = st.last_id
  /\ pc' = NextPhase(pc)
  /\ UNCHANGED <<core_errors, waiting_test, test_mode, positions, subs, active, app, wire>>
  /\ UNCHANGED <<sheet, trades, executions, messages, uid_clock, threads,
                 market, opened30, noon, fills>>

\* ---------------------------------------------------- sync_peg_limit_orders
\* mutant of PegOrders: the orders pegged to the mid are the chased ones
PegOrders_PegMid(os) ==
  {o \in DOMAIN os : os[o].status = "placed" /\ os[o].type = "LMT"
                     /\ os[o].tif = "PEG MID"}

PegOrders(os) ==
  {o \in DOMAIN os : os[o].status = "placed" /\ os[o].type = "LMT"
                     /\ os[o].tif = ""}

\* the live threads started for request id rid
ChasersOf(ths, rid) == {th \in ths.running : th.rid = rid}

(* Thread(target=_process_threaded_peg_order, ...): a thread at the head of  *)
(* its loop.  Threads of one request id that are at the same place are one  *)
(* element of the set of running threads.                                    *)
NewChaser(rid) == [rid |-> rid, at |-> "check", rounds |-> 0]

(* process_pegged_order for every chased order: a request id without an     *)
(* entry in _THREADS gets a thread; for one with an entry, join(0.05)        *)
(* returns whether or not the thread has finished and the entry is popped.   *)
sync_peg_limit_orders ==
  /\ pc = "sync_peg_limit_orders"
  /\ LET rids == {orders[o].request_id : o \in PegOrders(orders)}
         start == rids \ threads.keys
     IN  threads' = [keys |-> (threads.keys \ rids) \cup start,
                     running |-> threads.running \cup
                                   {NewChaser(r) : r \in start}]
  /\ pc' = NextPhase(pc)
  /\ UNCHANGED <<core_errors, waiting_test, test_mode, positions, subs, active, app, wire>>
  /\ UNCHANGED <<sheet, trades, orders, executions, messages, last_id,
                 uid_clock, market, opened30, noon, fills>>

OrderOf(os, rid) == CHOOSE o \in DOMAIN os : os[o].request_id = rid

Filled(o) ==
  LET ids == ValidExecutions(executions,
                             ExecutionsByOrderId(executions, orders[o].request_id))
  IN  ExecutedQty(executions, trades, orders[o], ids) >= orders[o].qty

\* the mids get_trade_market_price can return to a chaser; 0: no price
Mids == {0, 100, 102}

\* abs(abs(order.price) - abs(mid))
Dist(a, b) ==
  LET x == IF a < 0 THEN -a ELSE a
      y == IF b < 0 THEN -b ELSE b
  IN  IF x < y THEN y - x ELSE x - y

(* register_forced_trade_close.  qtys is defaultdict(lambda x: 0): the       *)
(* factory is called without an argument, so the first qtys[...] += of the   *)
(* loop over the valid executions raises TypeError (ok = FALSE) before any   *)
(* order is built; without executions qtys stays empty and the second loop   *)
(* registers nothing.                                                         *)
RegisterForcedTradeClose(os, ex, tid, exclude) ==
  LET execs == UNION {ValidExecutions(ex,
                        ExecutionsByOrderId(ex, os[o].request_id)) :
                      o \in {x \in DOMAIN os : os[x].trade = tid}}
  IN  [ok |-> execs = {}, orders |-> os]

\* _process_pegged_order, lines 1204-1215: the thread leaves the loop
ChaserExit(th) ==
  /\ th \in threads.running /\ th.at = "check"
  /\ LET o == OrderOf(orders, th.rid)
     IN  market # "open" \/ orders[o].status # "placed" \/ Filled(o)
  /\ threads' = [threads EXCEPT !.running = @ \ {th}]
  /\ UNCHANGED <<core_errors, waiting_test, test_mode, positions, subs, active, app, wire>>
  /\ UNCHANGED <<sheet, trades, orders, executions, messages, last_id,
                 uid_clock, pc, market, opened30, noon, fills>>

\* lines 1204-1230: the order is placed and unfilled, the mid has moved away
\* from its price: the price is replaced and committed
ChaserReprice(th) ==
  /\ th \in threads.running /\ th.at = "check"
  /\ LET o == OrderOf(orders, th.rid)
     IN  /\ market = "open" /\ orders[o].status = "placed" /\ ~Filled(o)
         /\ \E mid \in Mids \ {0} :
              /\ Dist(orders[o].price, mid) > STK_NBBO_OFFSET
              /\ orders' = [orders EXCEPT ![o].price = mid]
  /\ threads' = [threads EXCEPT !.running = (@ \ {th}) \cup
                                            {[th EXCEPT !.at = "replace"]}]
  /\ UNCHANGED <<core_errors, waiting_test, test_mode, positions, subs, active, app, wire>>
  /\ UNCHANGED <<sheet, trades, executions, messages, last_id, uid_clock, pc,
                 market, opened30, noon, fills>>

\* line 1231: place_order on the order whose status was read at line 1206
ChaserPlace(th) ==
  /\ th \in threads.running /\ th.at = "replace"
  /\ LET o == OrderOf(orders, th.rid)
     IN  orders' = IF CanPlace(trades, orders[o])
                     THEN [orders EXCEPT ![o].status = "placed"]
                   ELSE orders
  /\ threads' = [threads EXCEPT !.running = (@ \ {th}) \cup
                                            {[th EXCEPT !.at = "check"]}]
  /\ UNCHANGED <<core_errors, waiting_test, test_mode, positions, subs, active, app, wire>>
  /\ UNCHANGED <<sheet, trades, executions, messages, last_id, uid_clock, pc,
                 market, opened30, noon, fills>>

\* lines 1235-1251: the 90 seconds are over
ChaserTimeout(th) ==
  /\ th \in threads.running /\ th.at = "check"
  /\ LET o == OrderOf(orders, th.rid)
         tid == orders[o].trade
         give_up == /\ tid # 0
                    /\ ExecutionsByOrderId(executions, th.rid) = {}
                    /\ ~HasOpeningOrderComplete(orders, trades, tid)
         \* register_forced_trade_close raises on the first execution it
         \* meets (its defaultdict factory takes an argument): the thread
         \* logs the error and rolls back
         raises == \E x \in DOMAIN orders :
                     /\ orders[x].trade = tid
                     /\ ExecutionsByOrderId(executions, orders[x].request_id) # {}
     IN  /\ tid # 0 => give_up
         /\ IF give_up /\ ~raises
              THEN /\ messages' = RegisterTradeMsg(messages,
                                    Msg(tid, CODE_TIMEOUT, 0, 1))
                   /\ Fits(messages', messages, MaxMsgs)
                   /\ orders' = [orders EXCEPT ![o].status = "error"]
            ELSE UNCHANGED <<messages, orders>>
  /\ threads' = [threads EXCEPT !.running = @ \ {th}]
  /\ UNCHANGED <<core_errors, waiting_test, test_mode, positions, subs, active, app, wire>>
  /\ UNCHANGED <<sheet, trades, executions, last_id, uid_clock, pc, market,
                 opened30, noon, fills>>

\* mutant of ChaserRestart: every order with a trade is chased again
ChaserRestart_Any(th) ==
  /\ th \in threads.running /\ th.at = "check"
  /\ th.rounds < MaxRounds
  /\ orders[OrderOf(orders, th.rid)].trade # 0
  /\ threads' = [threads EXCEPT !.running = (@ \ {th}) \cup
                                            {[th EXCEPT !.rounds = @ + 1]}]
  /\ UNCHANGED <<core_errors, waiting_test, test_mode, positions, subs, active, app, wire>>
  /\ UNCHANGED <<sheet, trades, orders, executions, messages, last_id,
                 uid_clock, pc, market, opened30, noon, fills>>

(* lines 1235-1249, else branch: the 90 seconds are over for an order that  *)
(* has executions or whose trade has a complete opening order; the chase    *)
(* starts over with a fresh timeout (_process_pegged_order calls itself).   *)
ChaserRestart(th) ==
  /\ th \in threads.running /\ th.at = "check"
  /\ th.rounds < MaxRounds
  /\ LET o == OrderOf(orders, th.rid)
         tid == orders[o].trade
     IN  /\ tid # 0
         /\ \/ ExecutionsByOrderId(executions, th.rid) # {}
            \/ HasOpeningOrderComplete(orders, trades, tid)
  /\ threads' = [threads EXCEPT !.running = (@ \ {th}) \cup
                                            {[th EXCEPT !.rounds = @ + 1]}]
  /\ UNCHANGED <<core_errors, waiting_test, test_mode, positions, subs, active, app, wire>>
  /\ UNCHANGED <<sheet, trades, orders, executions, messages, last_id,
                 uid_clock, pc, market, opened30, noon, fills>>

(* A step of one chaser thread.  A thread keeps its position across the     *)
(* cycles of the supervisor.                                                 *)
Chaser ==
  \E th \in threads.running :
    /\ Sleeping
    /\ \/ ChaserExit(th)
       \/ ChaserReprice(th)
       \/ ChaserPlace(th)
       \/ ChaserTimeout(th)
       \/ ChaserRestart(th)

\* --------------------------------------------------- sync_timed_out_orders
\* mutant of TimeOut: the message is registered for every order with a trade
RECURSIVE TimeOut_AlwaysMsg(_, _, _)
TimeOut_AlwaysMsg(st, ts, todo) ==
  IF todo = {} THEN st
  ELSE LET oid == CHOOSE o \in todo : \A u \in todo : o <= u
           tid == st.orders[oid].trade
       IN  TimeOut_AlwaysMsg(
             [orders |-> [st.orders EXCEPT ![oid].status = "error"],
              messages |-> IF tid = 0 THEN st.messages
                           ELSE RegisterTradeMsg(st.messages,
                                  Msg(tid, CODE_TIMEOUT, 0, 0))],
             ts, todo \ {oid})

RECURSIVE TimeOut(_, _, _)
TimeOut(st, ts, todo) ==
  IF todo = {} THEN st
  ELSE LET oid == CHOOSE o \in todo : \A u \in todo : o <= u
           tid == st.orders[oid].trade
           os == [st.orders EXCEPT ![oid].status = "error"]
       IN  TimeOut([orders |-> os,
                    messages |-> IF tid = 0 \/ HasOpeningOrderComplete(os, ts, tid)
                                   THEN st.messages
                                 ELSE RegisterTradeMsg(st.messages,
                                        Msg(tid, CODE_TIMEOUT, 0, 0))],
                   ts, todo \ {oid})

sync_timed_out_orders ==
  /\ pc = "sync_timed_out_orders"
  /\ LET todo == IF opened30
                   THEN {o \in DOMAIN orders :
                           /\ orders[o].status \in {"ready", "placed"}
                           /\ orders[o].age >= 2}
                 ELSE {}
         st == TimeOut([orders |-> orders, messages |-> messages], trades, todo)
     IN  /\ Fits(st.messages, messages, MaxMsgs)
         /\ orders' = st.orders
         /\ messages' = st.messages
  /\ pc' = NextPhase(pc)
  /\ UNCHANGED <<core_errors, waiting_test, test_mode, positions, subs, active, app, wire>>
  /\ UNCHANGED <<sheet, trades, executions, last_id, uid_clock, threads,
                 market, opened30, noon, fills>>

\* ------------------------------------------------------ sync_expired_trades
ExpiredTrades(ts, os) ==
  {t \in DOMAIN ts :
     /\ ts[t].expires
     /\ ts[t].sec \in {"OPT", "BAG"}
     /\ ts[t].status = "open"
     /\ NotIn(t, {os[o].trade : o \in {x \in DOMAIN os : os[x].age = 0}})}

RECURSIVE ExpireAll(_, _, _, _)
ExpireAll(os, ts, todo, ok) ==
  IF todo = {} \/ ~ok THEN [orders |-> os, ok |-> ok]
  ELSE LET tid == CHOOSE t \in todo : \A u \in todo : t <= u
       IN  IF ~HasTotalQty(os, ts, tid) THEN ExpireAll(os, ts, todo \ {tid}, FALSE)
           ELSE ExpireAll(RegisterOrder(os, ts, tid, ClosingAction(ts[tid]),
                                        LeftQty(os, ts, tid), "MKT", "", 0),
                          ts, todo \ {tid}, ok)

sync_expired_trades ==
  /\ pc = "sync_expired_trades"
  /\ LET todo == IF noon = "in" /\ \E t \in DOMAIN trades :
                                     /\ trades[t].status \notin {"closed", "error"}
                                     /\ ~trades[t].exited
                                     /\ trades[t].expires
                                     /\ trades[t].sec \in {"OPT", "BAG"}
                   THEN ExpiredTrades(trades, orders)
                 ELSE {}
         res == ExpireAll(orders, trades, todo, TRUE)
     IN  IF res.ok
           THEN /\ Fits(res.orders, orders, MaxOrders)
                /\ orders' = res.orders
                /\ pc' = NextPhase(pc)
         ELSE /\ pc' = "dead"
              /\ UNCHANGED orders
  /\ core_errors' = IF pc' = "dead" THEN core_errors + 1 ELSE core_errors
  /\ UNCHANGED <<waiting_test, test_mode, positions, subs, active, app, wire>>
  /\ UNCHANGED <<sheet, trades, executions, messages, last_id, uid_clock,
                 threads, market, opened30, noon, fills>>

\* --------------------------------------------------- process_trade_messages
\* ib.CODES_USER_ERROR + ib.CODES_PROGRAMMING_ERROR
HighlightCodes == {CODE_TACTIC}

\* ib.CODES_IGNORE
IgnoreCodes == {CODE_IGNORED}

\* mutant of OpenMsgs: the messages of closed and failed trades are kept
OpenMsgs_AnyStatus(ms, ts) ==
  {i \in DOMAIN ms : /\ ms[i].status = "open"
                     /\ ms[i].code > 0
                     /\ ms[i].trade # 0}

OpenMsgs(ms, ts) ==
  {i \in DOMAIN ms : /\ ms[i].status = "open"
                     /\ ms[i].code > 0
                     /\ ms[i].trade # 0
                     /\ ts[ms[i].trade].status \notin {"closed", "error"}}

(* One iteration of the loop of process_trade_messages for message i; lp is *)
(* the price get_trade_limit_price returns for a replacement order.          *)
ProcessMsg(st, i, lp) ==
  LET m == st.messages[i]
      tid == m.trade
      total_202s == Cardinality({j \in DOMAIN st.messages :
                                   /\ st.messages[j].trade = tid
                                   /\ st.messages[j].code = CODE_CANCELLED})
      orig == {o \in DOMAIN st.orders : /\ st.orders[o].trade = tid
                                        /\ st.orders[o].request_id = m.request_id}
      o == st.orders[CHOOSE x \in orig : \A y \in orig : x <= y]
      resolved == [st.messages EXCEPT ![i].status = "resolved"]
  IN  IF m.code \in IgnoreCodes
        THEN [st EXCEPT !.messages = resolved]
      ELSE IF m.code = CODE_CANCELLED
        THEN IF HasOpeningOrder(st.orders, st.trades, tid)
               THEN IF total_202s >= MAX_202
                      THEN [st EXCEPT !.messages = resolved,
                                      !.trades[tid].status = "error"]
                    ELSE IF orig # {}
                      THEN [st EXCEPT
                              !.messages = NoPriceMsg(resolved, tid, lp),
                              !.orders = Append(@,
                                 NewOrder(tid, st.trades[tid].u_id,
                                          st.trades[tid].contract, o.action,
                                          o.qty, 0, o.type, o.tif, lp))]
                    ELSE [st EXCEPT !.messages = resolved]
             ELSE [st EXCEPT !.messages = resolved,
                             !.trades[tid].status = "error"]
      ELSE IF m.code \in HighlightCodes \/ (3 < m.count /\ m.count < 5)
        THEN [st EXCEPT !.messages = resolved,
                        !.trades[tid].status = "error"]
      ELSE [st EXCEPT !.messages[i].status = "unknown"]

RECURSIVE ProcessMsgs(_, _, _)
ProcessMsgs(st, todo, lp) ==
  IF todo = {} THEN st
  ELSE LET i == CHOOSE x \in todo : \A y \in todo : x <= y
       IN  ProcessMsgs(ProcessMsg(st, i, lp), todo \ {i}, lp)

process_trade_messages_within(max_orders, max_msgs) ==
  /\ pc = "process_trade_messages"
  /\ \E lp \in LimitPrices :
       LET st == ProcessMsgs([trades |-> trades, orders |-> orders,
                              messages |-> messages],
                             OpenMsgs(messages, trades), lp)
       IN  /\ Len(st.orders) <= max_orders
           /\ Len(st.messages) <= max_msgs
           /\ trades' = st.trades
           /\ orders' = st.orders
           /\ messages' = st.messages
  /\ pc' = NextPhase(pc)
  /\ UNCHANGED <<core_errors, waiting_test, test_mode, positions, subs, active, app, wire>>
  /\ UNCHANGED <<sheet, executions, last_id, uid_clock, threads, market,
                 opened30, noon, fills>>

process_trade_messages == process_trade_messages_within(MaxOrders, MaxMsgs)

\* ------------------------------------------------------ register_executions
\* an (exec_id, payload) pair as IbDbApp.execDetails queues it
Execution(exec_id, order_id, cum_qty, avg_price, contract, side, time) ==
  [exec_id |-> exec_id, order_id |-> order_id, cum_qty |-> cum_qty,
   avg_price |-> avg_price, contract |-> contract, side |-> side,
   time |-> time]

\* the IbExecution row register_executions adds for a queued execution
ExecutionRow(e) ==
  [exec_id |-> e.exec_id,
   base_exec_id |-> SplitExecCorrectionId(e.exec_id).base,
   correction_id |-> SplitExecCorrectionId(e.exec_id).corr,
   utc_time |-> e.time, order_id |-> e.order_id,
   side |-> e.side, cum_qty |-> e.cum_qty,
   avg_price |-> e.avg_price, contract |-> e.contract]

\* mutant of RegisterExecutions: a row is added without looking for a match
RegisterExecutions_NoMatch(ex, batch) ==
  ex \o [k \in DOMAIN batch |-> ExecutionRow(batch[k])]

RECURSIVE RegisterExecutions(_, _)
RegisterExecutions(ex, batch) ==
  IF batch = <<>> THEN ex
  ELSE LET e == Head(batch)
           match == \E i \in DOMAIN ex : ex[i].exec_id = e.exec_id
       IN  RegisterExecutions(IF match THEN ex ELSE Append(ex, ExecutionRow(e)),
                              Tail(batch))

\* IbDbApp.execDetailsEnd: the executions execDetails queued are registered,
\* in a table of at most cap rows
RegisterBatch(batch, cap) ==
  /\ batch # <<>>
  /\ executions' = RegisterExecutions(executions, batch)
  /\ Len(executions') <= cap
  /\ UNCHANGED <<core_errors, waiting_test, test_mode, positions, subs, active, app, wire>>
  /\ UNCHANGED <<sheet, trades, orders, messages, last_id, uid_clock, pc,
                 threads, market, opened30, noon, fills>>

execDetailsEnd(batch) == RegisterBatch(batch, MaxExecs)

\* ---------------------------------------------------------------- sync_fills
(* The sheet calls of sync_fills.  close_sheet_trade_partial inserts a copy   *)
(* of the row with a fresh uid and DATE_EXITED set (Trade.close_partial),    *)
(* close_sheet_trade fills DATE_EXITED and writes a fresh uid to column 22   *)
(* (Trade.close), open_sheet_trade writes the entry price to column 9       *)
(* (Trade.register_entry_price).  Rows are appended: the model never looks   *)
(* at the position of a row.                                                 *)
RowOf(sh, uid) == CHOOSE i \in DOMAIN sh : sh[i].u_id = uid

HasRow(sh, uid) == uid # 0 /\ \E i \in DOMAIN sh : sh[i].u_id = uid

\* mutant of close_sheet_trade_partial: the copied row keeps the u_id
close_sheet_trade_partial_SameUid(sh, uid, new_uid) ==
  Append(sh, [sh[RowOf(sh, uid)] EXCEPT !.exited = TRUE, !.partial = TRUE])

close_sheet_trade_partial(sh, uid, new_uid) ==
  Append(sh, [sh[RowOf(sh, uid)] EXCEPT !.u_id = new_uid, !.exited = TRUE,
                                        !.partial = TRUE])

close_sheet_trade(sh, uid, new_uid) ==
  [sh EXCEPT ![RowOf(sh, uid)].u_id = new_uid, ![RowOf(sh, uid)].exited = TRUE]

open_sheet_trade(sh, uid, price) ==
  [sh EXCEPT ![RowOf(sh, uid)].entry = price]

\* IbApp before close_trade is called
NoApp == [at |-> "idle"]

\* nothing sent and not committed, no error answered
NoWire == [sent |-> [order |-> 0, rid |-> 0], failed |-> {}]

\* ------------------------------------------------------------------- Init
Row(sh) == [shape |-> sh, u_id |-> 0, entry |-> sh.entry, exited |-> FALSE,
            partial |-> FALSE]

Init ==
  /\ sheet \in [1..NRows -> {Row(sh) : sh \in Shapes}]
  /\ trades = <<>>
  /\ orders = <<>>
  /\ executions = <<>>
  /\ messages = <<>>
  /\ last_id = 0
  /\ uid_clock = 0
  /\ pc = "sync_gsheet_trades"
  /\ threads = [keys |-> {}, running |-> {}]
  /\ market \in {"pre", "open"}
  /\ opened30 = FALSE
  /\ noon = "before"
  /\ fills = <<>>
  /\ core_errors = 0
  /\ waiting_test = FALSE
  /\ test_mode \in BOOLEAN
  /\ positions = {}
  /\ subs = {}
  /\ active = {}
  /\ app = NoApp
  /\ wire = NoWire

\* a phase of run_ib_database raised: core_errors += 1, rollback, raise
Crashed == pc = "dead"

\* the loop of run_ib_database has reached its break
ShutDown == pc = "done"

(* The head of the loop in test mode: the pause is logged once, the loop    *)
(* sleeps and goes back to its head.                                        *)
test_mode_pause ==
  /\ pc = "sync_gsheet_trades"
  /\ test_mode
  /\ ~waiting_test
  /\ waiting_test' = TRUE
  /\ UNCHANGED <<sheet, trades, orders, executions, messages, last_id,
                 uid_clock, pc, threads, market, opened30, noon, fills,
                 core_errors, test_mode, positions, subs, active, app, wire>>

\* the head of the loop before the open: sleep until the open, continue
wait_for_open ==
  /\ pc = "sync_gsheet_trades"
  /\ ~test_mode
  /\ market = "pre"
  /\ waiting_test
  /\ waiting_test' = FALSE
  /\ UNCHANGED <<sheet, trades, orders, executions, messages, last_id,
                 uid_clock, pc, threads, market, opened30, noon, fills,
                 core_errors, test_mode, positions, subs, active, app, wire>>

\* mutant of shut_down: the loop breaks at the close
shut_down_AtClose ==
  /\ pc = "sync_gsheet_trades"
  /\ ~test_mode
  /\ market \in {"closed", "over"}
  /\ pc' = "done"
  /\ waiting_test' = FALSE
  /\ UNCHANGED <<sheet, trades, orders, executions, messages, last_id,
                 uid_clock, threads, market, opened30, noon, fills,
                 core_errors, test_mode, positions, subs, active, app, wire>>

\* the head of the loop past close + 30 minutes: break
shut_down ==
  /\ pc = "sync_gsheet_trades"
  /\ ~test_mode
  /\ market = "over"
  /\ pc' = "done"
  /\ waiting_test' = FALSE
  /\ UNCHANGED <<sheet, trades, orders, executions, messages, last_id,
                 uid_clock, threads, market, opened30, noon, fills,
                 core_errors, test_mode, positions, subs, active, app, wire>>

(* sync_price_subscriptions, maybe_request_executions and delete_old_prices *)
(* work on the subscriptions, the requests to the gateway and ib_prices:    *)
(* the prices a phase reads are inputs of that phase.                       *)
\* IbTrade.underlying_contract_id: the key of the stock the trade is on
UnderlyingKey(t) == ContractKey("STK", t.contract.symbol, 0, 0, "", <<>>)

(* get_open_contract_ids: the contracts of the trades that are neither      *)
(* closed nor in error and have no exit date: the underlying of each, and   *)
(* the contract of the trade or, for a BAG, the contracts of its legs.       *)
OpenContractIds(ts) ==
  UNION {{UnderlyingKey(t)} \cup
           (IF t.sec = "BAG" THEN {t.legs[i].contract : i \in DOMAIN t.legs}
            ELSE {t.contract}) :
         t \in {x \in Range(ts) : /\ x.status \notin {"closed", "error"}
                                  /\ ~x.exited}}

\* mutant of SubsAfter: every contract with a recent price is cancelled
SubsAfter_AllRecent(held, open, recent) == (held \cup (open \ recent)) \ recent

(* sync_price_subscriptions: the subscriptions with a request id after the  *)
(* two loops, held being those before them.                                  *)
SubsAfter(held, open, recent) ==
  LET missing == open \ recent
      unneeded == recent \ open
  IN  (held \cup missing) \ unneeded

(* sync_price_subscriptions: the subscriptions flagged active after the two *)
(* loops.  request_subscription sets the flag with the request id;          *)
(* cancel_subscription clears it on the rows that hold a request id.         *)
ActiveAfter(flagged, held, open, recent) ==
  LET missing == open \ recent
      unneeded == (recent \ open) \cap held
  IN  (flagged \cup missing) \ unneeded

(* sync_price_subscriptions, recent: the contracts with a row of ib_prices   *)
(* of the last 10 minutes.  An open contract without a recent price gets    *)
(* its subscription requested (a row requested in the last 5 minutes keeps  *)
(* its request); a contract with a recent price that no open trade uses      *)
(* has its subscription cancelled when it holds a request id.                *)
sync_price_subscriptions_at(recent) ==
  /\ pc = "sync_price_subscriptions"
  /\ subs' = SubsAfter(subs, OpenContractIds(trades), recent)
  /\ active' = ActiveAfter(active, subs, OpenContractIds(trades), recent)
  /\ pc' = NextPhase(pc)
  /\ UNCHANGED <<sheet, trades, orders, executions, messages, last_id,
                 uid_clock, threads, market, opened30, noon, fills,
                 core_errors, waiting_test, test_mode, positions, app, wire>>

\* every subscription with a request id has delivered a price of late
sync_price_subscriptions == sync_price_subscriptions_at(subs)

\* some subscriptions have delivered no price in the last 10 minutes
sync_price_subscriptions_stale ==
  \E recent \in SUBSET subs : sync_price_subscriptions_at(recent)

maybe_request_executions ==
  /\ pc = "maybe_request_executions"
  /\ pc' = NextPhase(pc)
  /\ UNCHANGED <<sheet, trades, orders, executions, messages, last_id,
                 uid_clock, threads, market, opened30, noon, fills,
                 core_errors, waiting_test, test_mode, positions, subs, active, app, wire>>

delete_old_prices ==
  /\ pc = "delete_old_prices"
  /\ pc' = NextPhase(pc)
  /\ UNCHANGED <<sheet, trades, orders, executions, messages, last_id,
                 uid_clock, threads, market, opened30, noon, fills,
                 core_errors, waiting_test, test_mode, positions, subs, active, app, wire>>

\* delete_old_positions: the rows with position 0 go
delete_old_positions ==
  /\ pc = "delete_old_positions"
  /\ positions' = {p \in positions : p.position # 0}
  /\ pc' = NextPhase(pc)
  /\ UNCHANGED <<sheet, trades, orders, executions, messages, last_id,
                 uid_clock, threads, market, opened30, noon, fills,
                 core_errors, waiting_test, test_mode, subs, active, app, wire>>

\* ----------------------------------------------------- sync_gsheet_trades
\* ----------------------------------------------------------- sync_positions
SYNC_POSITIONS == FALSE

CODE_POSITION == 99994

\* a contract the broker holds a position on and no sheet row trades
OrphanKey == ContractKey("STK", "AMD", 0, 0, "", <<>>)

\* an IbPosition row as register_position adds it
PositionRow(k, qty) ==
  [contract |-> k, position |-> qty, valid |-> TRUE, checked |-> FALSE]

\* _register_orphan_position: a ready order without trade, exclude = 1
RegisterOrphanPosition(os, pos) ==
  Append(os, NewOrder(0, 0, pos.contract,
                      IF pos.position > 0 THEN "SELL" ELSE "BUY",
                      Abs(pos.position), 1, "MKT", "", 0))

\* the quantity the fills of trade tid are off by, 0 when they are not
OffBy(os, ts, tid) ==
  LET total == TotalQty(os, ts, tid)
      sold == SoldQty(os, tid)
      bought == BoughtQty(os, tid)
  IN  IF sold > total THEN sold - total
      ELSE IF bought > total THEN bought - total
      ELSE 0

(* One iteration of the loop of sync_positions for the position row pos.    *)
SyncPosition(st, pos) ==
  LET direct == {t \in DOMAIN st.trades :
                   /\ st.trades[t].contract = pos.contract
                   /\ st.trades[t].status = "open"
                   /\ ~st.trades[t].exited
                   /\ st.trades[t].entry > 0}
      by_leg == {t \in DOMAIN st.trades :
                   /\ st.trades[t].status = "open"
                   /\ \E i \in DOMAIN st.trades[t].legs :
                        st.trades[t].legs[i].contract = pos.contract}
      recent == {st.orders[o].trade : o \in {x \in DOMAIN st.orders :
                                               st.orders[x].age = 0}}
      off == {t \in direct \ recent :
                HasTotalQty(st.orders, st.trades, t)
                /\ OffBy(st.orders, st.trades, t) > 0}
      checked == (st.positions \ {pos}) \cup {[pos EXCEPT !.checked = TRUE]}
      orphaned == (st.positions \ {pos}) \cup
                    {[pos EXCEPT !.checked = TRUE, !.valid = FALSE]}
  IN  IF direct = {} /\ by_leg = {}
        THEN [st EXCEPT !.positions = orphaned,
                        !.orders = RegisterOrphanPosition(@, pos)]
      ELSE IF direct = {} THEN [st EXCEPT !.positions = checked]
      ELSE [st EXCEPT
              !.positions = checked,
              !.trades = [t \in DOMAIN @ |->
                            IF t \in off THEN [@[t] EXCEPT !.status = "error"]
                            ELSE @[t]],
              !.messages = LET RECURSIVE Reg(_, _)
                               Reg(ms, todo) ==
                                 IF todo = {} THEN ms
                                 ELSE LET t == CHOOSE x \in todo :
                                                 \A y \in todo : x <= y
                                      IN  Reg(RegisterTradeMsg(ms,
                                                Msg(t, CODE_POSITION, 0,
                                                    OffBy(st.orders, st.trades, t))),
                                              todo \ {t})
                           IN  Reg(@, off)]

RECURSIVE SyncPositions(_, _)
SyncPositions(st, todo) ==
  IF todo = {} THEN st
  ELSE LET pos == CHOOSE p \in todo : TRUE
       IN  SyncPositions(SyncPosition(st, pos), todo \ {pos})

(* sync_positions returns at once unless SYNC_POSITIONS is set and the      *)
(* market is open; it then checks the rows not checked before.              *)
sync_positions_if(switch) ==
  /\ pc = "sync_positions"
  /\ LET todo == IF switch /\ market = "open"
                   THEN {p \in positions :
                           p.position # 0 /\ p.valid /\ ~p.checked}
                 ELSE {}
         st == SyncPositions([positions |-> positions, orders |-> orders,
                              trades |-> trades, messages |-> messages], todo)
     IN  /\ Fits(st.orders, orders, MaxOrders)
         /\ Fits(st.messages, messages, MaxMsgs)
         /\ positions' = st.positions
         /\ orders' = st.orders
         /\ trades' = st.trades
         /\ messages' = st.messages
  /\ pc' = NextPhase(pc)
  /\ UNCHANGED <<sheet, executions, last_id, uid_clock, threads, market,
                 opened30, noon, fills, core_errors, waiting_test, test_mode,
                 subs, active, app, wire>>

\* the program as it is: the switch is the module constant
sync_positions == sync_positions_if(SYNC_POSITIONS)

(* IbDbApp.position -> register_position: the gateway reports the position  *)
(* qty on the contract with key k.                                          *)
position(k, qty) ==
  /\ pc = "sync_gsheet_trades"
  /\ LET match == {p \in positions : p.contract = k}
     IN  positions' =
           IF match = {}
             THEN IF qty # 0 THEN positions \cup {PositionRow(k, qty)}
                  ELSE positions
           ELSE (positions \ match) \cup
                  {[p EXCEPT !.position = qty, !.valid = TRUE,
                             !.checked = FALSE] : p \in match}
  /\ positions' # positions
  /\ UNCHANGED <<sheet, trades, orders, executions, messages, last_id,
                 uid_clock, pc, threads, market, opened30, noon, fills,
                 core_errors, waiting_test, test_mode, subs, active, app, wire>>

(* The head of the loop of run_ib_database lets a cycle begin when the     *)
(* sheet is not in test mode and the clock is between the open and 30       *)
(* minutes after the close; sync_gsheet_trades is the first phase.           *)
sync_gsheet_trades ==
  /\ pc = "sync_gsheet_trades"
  /\ ~test_mode
  /\ market \in {"open", "closed"}
  /\ IF IngestRaises(sheet)
       THEN /\ pc' = "dead"
            /\ UNCHANGED <<sheet, trades, uid_clock, orders>>
     ELSE LET st == RegisterTrades([sheet |-> sheet, trades |-> trades,
                                    uid |-> uid_clock], 1)
              todo == {t \in DOMAIN st.trades :
                         ManualCloseMatch(st.sheet, st.trades, orders, t)}
              res == ManualClose(st.trades, orders, todo, TRUE)
          IN  /\ Len(st.trades) <= MaxTrades
              /\ Fits(res.orders, orders, MaxOrders)
              /\ sheet' = st.sheet
              /\ trades' = st.trades
              /\ uid_clock' = st.uid
              /\ orders' = res.orders
              /\ pc' = IF res.ok THEN NextPhase(pc) ELSE "dead"
  /\ core_errors' = IF pc' = "dead" THEN core_errors + 1 ELSE core_errors
  /\ waiting_test' = FALSE
  /\ UNCHANGED <<test_mode, positions, subs, active, app, wire>>
  /\ UNCHANGED <<executions, messages, last_id, threads, market, opened30,
                 noon, fills>>

\* attrs['is_partial']: the quantity closed so far, with this fill, is short
\* of total_qty
IsPartial(done, qty, total) == ~(done + Abs(qty) >= total)

(* sync_fills, lines 2025-2030: the position row of the order's contract    *)
(* takes the executed order when it holds at least the order's quantity.    *)
AdjustPosition(ps, o) ==
  {IF p.contract = o.contract /\ Abs(p.position) >= o.qty
     THEN [p EXCEPT !.position = IF o.action = "BUY" THEN @ + o.qty
                                  ELSE @ - o.qty]
   ELSE p : p \in ps}

\* ibtrade.TGT_REACHED, ibtrade.STOP_LOSS
TGT_REACHED == "Target reached"

STOP_LOSS == "Stop loss"

(* sync_fills, lines 2055-2062 and 2086: the notes of a close at the         *)
(* executed price, against the entry_price of the trade                     *)
Notes(t, price) ==
  IF IsLong(t)
    THEN IF t.sec = "BAG" /\ t.entry < 0
           THEN IF Abs(price) > Abs(t.entry) THEN STOP_LOSS ELSE TGT_REACHED
         ELSE IF price > t.entry THEN TGT_REACHED ELSE STOP_LOSS
  ELSE IF price < t.entry THEN TGT_REACHED ELSE STOP_LOSS

(* what sync_fills did with order oid: the kind of sheet call, the notes it  *)
(* passed, the executed price and the entry_price it compared with          *)
Fill(oid, kind, notes, price, entry) ==
  [order |-> oid, kind |-> kind, notes |-> notes, price |-> price,
   entry |-> entry]

(* One iteration of the loop of sync_fills for the placed order oid.  st.ok  *)
(* turns FALSE when the iteration raises: get_executed_price on no           *)
(* executions (IndexError), arithmetic on a total_qty of None or 0, a        *)
(* comparison with an entry_price of None, a sheet row that is not found,   *)
(* a call of the sheet API that fails (st.api is FALSE).                     *)
SyncFill(st, ex, oid) ==
  LET o == st.orders[oid]
      ids == ValidExecutions(ex, ExecutionsByOrderId(ex, o.request_id))
      qty == ExecutedQty(ex, st.trades, o, ids)
      price == ExecutedPrice(ex, st.trades, o, ids)
      tid == o.trade
      t == st.trades[tid]
      opening == o.action = OpeningAction(t)
      total == TotalQty(st.orders, st.trades, tid)
      done == IF IsLong(t) THEN SoldQty(st.orders, tid)
              ELSE BoughtQty(st.orders, tid)
      is_partial == IsPartial(done, qty, total)
      completed == [st.orders EXCEPT ![oid].status = "complete",
                                     ![oid].filled = "recent"]
      child == Len(st.sheet) + 1
      reg == RegisterTrade([sheet |-> close_sheet_trade_partial(
                                        st.sheet, t.u_id, st.uid + 1),
                            trades |-> st.trades, uid |-> st.uid + 1], child)
  IN  IF Abs(qty) < Abs(o.qty) THEN st
      ELSE IF ids = {} THEN [st EXCEPT !.ok = FALSE]
      ELSE IF tid = 0
        THEN [st EXCEPT !.orders = completed,
                !.positions = AdjustPosition(@, o),
                        !.fills = Append(@, Fill(oid, "none", "", 0, 0))]
      ELSE IF ~st.api THEN [st EXCEPT !.ok = FALSE]
      ELSE IF opening
        THEN [st EXCEPT
                !.sheet = IF HasRow(@, t.u_id)
                            THEN open_sheet_trade(@, t.u_id,
                                   IF IsLong(t) THEN price ELSE -price)
                          ELSE @,
                !.trades[tid].entry = Abs(price),
                !.orders = completed,
                !.positions = AdjustPosition(@, o),
                !.fills = Append(@, Fill(oid, "open", "", price, 0))]
      ELSE IF ~HasTotalQty(st.orders, st.trades, tid) \/ total = 0
              \/ t.entry = 0 \/ ~HasRow(st.sheet, t.u_id)
        THEN [st EXCEPT !.ok = FALSE]
      ELSE IF is_partial
        THEN [st EXCEPT
                !.sheet = reg.sheet,
                !.trades = [reg.trades EXCEPT ![Len(reg.trades)].parent = tid,
                                              ![Len(reg.trades)].status = "closed"],
                !.uid = reg.uid,
                !.orders = completed,
                !.positions = AdjustPosition(@, o),
                !.fills = Append(@, Fill(oid, "partial", Notes(t, price),
                                         price, t.entry))]
      ELSE [st EXCEPT
              !.sheet = close_sheet_trade(@, t.u_id, st.uid + 1),
              !.uid = st.uid + 1,
              !.trades[tid].u_id = st.uid + 1,
              !.trades[tid].exit = Abs(price),
              !.trades[tid].exited = TRUE,
              !.trades[tid].status = "closed",
              !.orders = completed,
                !.positions = AdjustPosition(@, o),
              !.fills = Append(@, Fill(oid, "full", Notes(t, price),
                                       price, t.entry))]

RECURSIVE SyncFills(_, _, _)
SyncFills(st, ex, todo) ==
  IF todo = {} \/ ~st.ok THEN st
  ELSE LET oid == CHOOSE o \in todo : \A u \in todo : o <= u
       IN  SyncFills(SyncFill(st, ex, oid), ex, todo \ {oid})

\* mutant of PlacedOrders: complete orders are reconciled again
PlacedOrders_OrComplete(os) ==
  {o \in DOMAIN os : os[o].status \in {"placed", "complete"}}

PlacedOrders(os) == {o \in DOMAIN os : os[o].status = "placed"}

(* sync_fills, api: the calls of the sheet API succeed.  An exception rolls  *)
(* the session back and leaves the phase (run_ib_database).                  *)
sync_fills_sheet(api) ==
  /\ pc = "sync_fills"
  /\ LET st == SyncFills([sheet |-> sheet, trades |-> trades,
                          orders |-> orders, uid |-> uid_clock,
                          fills |-> fills, positions |-> positions,
                          ok |-> TRUE, api |-> api],
                         executions, PlacedOrders(orders))
     IN  IF st.ok
           THEN /\ Len(st.trades) <= MaxTrades
                /\ sheet' = st.sheet
                /\ trades' = st.trades
                /\ orders' = st.orders
                /\ uid_clock' = st.uid
                /\ fills' = st.fills
                /\ positions' = st.positions
                /\ pc' = NextPhase(pc)
         ELSE /\ pc' = "dead"
              /\ UNCHANGED <<sheet, trades, orders, uid_clock, fills,
                             positions>>
  /\ core_errors' = IF pc' = "dead" THEN core_errors + 1 ELSE core_errors
  /\ UNCHANGED <<waiting_test, test_mode, subs, active, app, wire>>
  /\ UNCHANGED <<executions, messages, last_id, threads, market, opened30,
                 noon>>

sync_fills == sync_fills_sheet(TRUE)

\* sync_fills while the sheet cannot be reached
sync_fills_sheet_down == sync_fills_sheet(FALSE)

\* ------------------------------------------------------------- the broker

\* the executions the gateway reports for the order with index o: fill 1 is
\* a partial fill, fill 2 fills the order; corr 2 is a price correction
ExecPrice(o) ==
  IF o.trade = 0 THEN 100
  ELSE IF trades[o.trade].entry # 0 THEN trades[o.trade].entry
  ELSE IF trades[o.trade].og # 0 THEN Abs(trades[o.trade].og)
  ELSE 100

Side(action) == IF action = "BUY" THEN "BOT" ELSE "SLD"

(* the price of one leg of a call spread that trades at px: the call with   *)
(* the lower strike is worth more than the calls with the higher strike,    *)
(* so that one leg at 150 against two at 160 nets to px                     *)
LegPrice(px, leg) == IF leg.contract.strike < 160 THEN 3 * px ELSE px

Flip(action) == IF action = "BUY" THEN "SELL" ELSE "BUY"

CumQty(o, ratio, fill) ==
  IF fill = 2 THEN Abs(o.qty) * ratio ELSE Abs(o.qty) * ratio - 1

BrokerBatch(oid, fill, corr, dp) ==
  LET o == orders[oid]
      px == ExecPrice(o) + dp
  IN  IF o.trade # 0 /\ trades[o.trade].sec = "BAG"
        THEN [l \in DOMAIN trades[o.trade].legs |->
                LET leg == trades[o.trade].legs[l]
                IN  Execution(<<o.request_id, l, fill, corr>>, o.request_id,
                              CumQty(o, leg.ratio, fill), LegPrice(px, leg),
                              leg.contract,
                              Side(IF o.action = "BUY" THEN leg.action
                                   ELSE Flip(leg.action)),
                              corr)]
      ELSE <<Execution(<<o.request_id, 0, fill, corr>>, o.request_id,
                       CumQty(o, 1, fill), px, o.contract, Side(o.action),
                       corr)>>

\* IbDbApp.execDetails for every execution of the report, then execDetailsEnd
Report(oid, fill, corr) ==
  /\ Sleeping
  /\ orders[oid].request_id # 0
  /\ CumQty(orders[oid], 1, fill) > 0
  /\ corr = 2 => \E i \in DOMAIN executions :
                   executions[i].exec_id = BrokerBatch(oid, fill, 1, 0)[1].exec_id
  /\ execDetailsEnd(BrokerBatch(oid, fill, corr, corr - 1))

\* the gateway reports a partial fill, a fill, or the correction of one
BrokerFill ==
  \E oid \in DOMAIN orders, fill \in 1..2, corr \in 1..2 : Report(oid, fill, corr)

\* the gateway reports that an order is filled
BrokerFillsOrder == \E oid \in DOMAIN orders : Report(oid, 2, 1)

(* the gateway reports that an order is filled: an opening order at the     *)
(* price of its row, a closing order one cent under or over the price the   *)
(* trade was entered at                                                      *)
PriceMoves(o) ==
  IF o.trade # 0 /\ trades[o.trade].entry # 0 THEN {-1, 1} ELSE {0}

ReportAt(oid, dp) ==
  /\ Sleeping
  /\ orders[oid].request_id # 0
  /\ RegisterBatch(BrokerBatch(oid, 2, 1, dp), MaxSpreadExecs)

BrokerFillsOrderAt ==
  \E oid \in DOMAIN orders : \E dp \in PriceMoves(orders[oid]) : ReportAt(oid, dp)

\* ---------------------------------------------------------- register_ib_error
\* IbDbApp.error -> register_ib_error for a request id that names an order
error_within(req_id, code, max_msgs) ==
  /\ Sleeping
  /\ \E o \in DOMAIN orders : orders[o].request_id = req_id
  /\ LET o == OrderOf(orders, req_id)
         m == Msg(orders[o].trade, code, req_id, 0)
     IN  /\ orders' = [orders EXCEPT ![o].status = "error"]
         /\ messages' = IF orders[o].trade # 0
                          THEN RegisterTradeMsg(messages, m)
                        ELSE Append(messages, m)
  /\ Len(messages') <= max_msgs
  /\ \A i \in DOMAIN messages' : messages'[i].count <= MaxCount
  /\ UNCHANGED <<core_errors, waiting_test, test_mode, positions, subs, active, app, wire>>
  /\ UNCHANGED <<sheet, trades, executions, last_id, uid_clock, pc, threads,
                 market, opened30, noon, fills>>

error(req_id, code) == error_within(req_id, code, MaxMsgs)

\* ---------------------------------------------------------------- the clock
\* the minutes a fill stays recent for evaluate_trades
EVAL_ORDER_PAUSE_MINUTES == 5

\* EVAL_ORDER_PAUSE_MINUTES pass: no fill is recent any more
Pause ==
  /\ Sleeping
  /\ \E o \in DOMAIN orders : orders[o].filled = "recent"
  /\ orders' = [o \in DOMAIN orders |->
                  [orders[o] EXCEPT !.filled = IF @ = "recent" THEN "old" ELSE @]]
  /\ UNCHANGED <<core_errors, waiting_test, test_mode, positions, subs, active, app, wire>>
  /\ UNCHANGED <<sheet, trades, executions, messages, last_id, uid_clock, pc,
                 threads, market, opened30, noon, fills>>

(* The orders pass into their next age class (under 10, 10 to 15, over 15  *)
(* minutes) and no fill is recent any more.  The window 12:00-12:05 is       *)
(* shorter than an age class: it is over when the orders have aged.          *)
Tick ==
  /\ Sleeping
  /\ \E o \in DOMAIN orders : orders[o].age < 2
  /\ orders' = [o \in DOMAIN orders |->
                  [orders[o] EXCEPT !.age = Min(@ + 1, 2),
                                    !.filled = IF @ = "recent" THEN "old" ELSE @]]
  /\ noon' = IF noon = "in" THEN "after" ELSE noon
  /\ UNCHANGED <<core_errors, waiting_test, test_mode, positions, subs, active, app, wire>>
  /\ UNCHANGED <<sheet, trades, executions, messages, last_id, uid_clock, pc,
                 threads, market, opened30, fills>>

\* five days pass, to a time of the same kind on a later trading day
Days ==
  /\ Sleeping
  /\ \E o \in DOMAIN orders : orders[o].age < 3
  /\ orders' = [o \in DOMAIN orders |->
                  [orders[o] EXCEPT !.age = 3,
                                    !.filled = IF @ = "recent" THEN "old" ELSE @]]
  /\ UNCHANGED <<core_errors, waiting_test, test_mode, positions, subs, active, app, wire>>
  /\ UNCHANGED <<sheet, trades, executions, messages, last_id, uid_clock, pc,
                 threads, market, opened30, noon, fills>>

\* the wall clock passes 30 minutes after the open, 12:00 and 12:05 US/Eastern
\* and the close
Clock ==
  /\ Sleeping
  /\ \/ ~opened30 /\ opened30' = TRUE /\ UNCHANGED noon
     \/ opened30 /\ noon = "before" /\ noon' = "in" /\ UNCHANGED opened30
     \/ noon = "in" /\ noon' = "after" /\ UNCHANGED opened30
  /\ UNCHANGED <<core_errors, waiting_test, test_mode, positions, subs, active, app, wire>>
  /\ UNCHANGED <<sheet, trades, orders, executions, messages, last_id,
                 uid_clock, pc, threads, market, fills>>

\* the exchange closes
MarketCloses ==
  /\ Sleeping
  /\ market = "open"
  /\ market' = "closed"
  /\ UNCHANGED <<core_errors, waiting_test, test_mode, positions, subs, active, app, wire>>
  /\ UNCHANGED <<sheet, trades, orders, executions, messages, last_id,
                 uid_clock, pc, threads, opened30, noon, fills>>

\* the exchange opens
MarketOpens ==
  /\ Sleeping
  /\ market = "pre"
  /\ market' = "open"
  /\ UNCHANGED <<core_errors, waiting_test, test_mode, positions, subs, active, app, wire>>
  /\ UNCHANGED <<sheet, trades, orders, executions, messages, last_id,
                 uid_clock, pc, threads, opened30, noon, fills>>

\* the wall clock passes 30 minutes after the close
TailEnds ==
  /\ Sleeping
  /\ market = "closed"
  /\ market' = "over"
  /\ UNCHANGED <<core_errors, waiting_test, test_mode, positions, subs, active, app, wire>>
  /\ UNCHANGED <<sheet, trades, orders, executions, messages, last_id,
                 uid_clock, pc, threads, opened30, noon, fills>>

\* the operator switches the test mode of the sheet on or off
ToggleTestMode ==
  /\ Sleeping
  /\ test_mode' = ~test_mode
  /\ UNCHANGED <<sheet, trades, orders, executions, messages, last_id,
                 uid_clock, pc, threads, market, opened30, noon, fills,
                 core_errors, waiting_test, positions, subs, active, app, wire>>

\* the operator fills DATE_EXITED of row i by hand
UserClosesRow(i) ==
  /\ Sleeping
  /\ sheet[i].u_id # 0
  /\ ~sheet[i].exited
  /\ sheet' = [sheet EXCEPT ![i].exited = TRUE]
  /\ UNCHANGED <<core_errors, waiting_test, test_mode, positions, subs, active, app, wire>>
  /\ UNCHANGED <<trades, orders, executions, messages, last_id, uid_clock,
                 pc, threads, market, opened30, noon, fills>>

\* ------------------------------------------------- request_ib_contract_ids
RequestLeg(leg) ==
  IF ~leg.con_id /\ leg.attempts <= MAX_REGISTRATION_ATTEMPTS
    THEN [leg EXCEPT !.attempts = @ + 1]
  ELSE leg

request_ib_contract_ids ==
  /\ pc = "request_ib_contract_ids"
  /\ trades' = [t \in DOMAIN trades |->
                  [trades[t] EXCEPT !.legs =
                     [i \in DOMAIN trades[t].legs |-> RequestLeg(trades[t].legs[i])]]]
  /\ pc' = NextPhase(pc)
  /\ UNCHANGED <<core_errors, waiting_test, test_mode, positions, subs, active, app, wire>>
  /\ UNCHANGED <<sheet, orders, executions, messages, last_id, uid_clock,
                 threads, market, opened30, noon, fills>>

(* IbDbApp.contractDetailsEnd -> register_ib_contract_ids: the broker answers *)
(* a request for the contract with key k.                                    *)
RegisterIbContractId(leg, k) ==
  IF leg.contract = k /\ ~leg.con_id THEN [leg EXCEPT !.con_id = TRUE] ELSE leg

contractDetailsEnd(k) ==
  /\ pc \in {"sync_gsheet_trades", "dead"}
  /\ \E t \in DOMAIN trades : \E i \in DOMAIN trades[t].legs :
        /\ trades[t].legs[i].contract = k
        /\ trades[t].legs[i].attempts > 0
        /\ ~trades[t].legs[i].con_id
  /\ trades' = [t \in DOMAIN trades |->
                  [trades[t] EXCEPT !.legs =
                     [i \in DOMAIN trades[t].legs |->
                        RegisterIbContractId(trades[t].legs[i], k)]]]
  /\ UNCHANGED <<core_errors, waiting_test, test_mode, positions, subs, active, app, wire>>
  /\ UNCHANGED <<sheet, orders, executions, messages, last_id, uid_clock, pc,
                 threads, market, opened30, noon, fills>>

LegKeys == UNION {{t.legs[i].contract : i \in DOMAIN t.legs} : t \in Range(trades)}

\* --------------------------------------------------- sync_pre_check_trades
\* the market prices a run can offer, in percent of |original_entry_price|;
\* 0: get_trade_market_price found no price
PriceKs == {0, 95, 96, 105, 106}

\* ibutils.get_corrected_sheet_size
CorrectedSheetSize(size) == IF Abs(size) >= 1 THEN size ELSE 1

\* mutant of OutOfBand: the sanity check of the entry price is skipped
OutOfBand_Never(og, price) == FALSE

\* abs(abs(og_entry) - abs(price)) > 0.05 * abs(price)
OutOfBand(og, price) == 100 * Abs(Abs(og) - Abs(price)) > PCT_BAND * Abs(price)

(* One iteration of the loop of sync_pre_check_trades for trade tid; k is the *)
(* price the market offers, stale: the trade was added over 30 seconds ago.   *)
PreCheckTrade(st, tid, k, stale) ==
  LET t == st.trades[tid]
      price == (Abs(t.og) * k) \div 100
      size == IF t.sec = "BAG" THEN Abs(CorrectedSheetSize(t.size))
              ELSE CorrectedSheetSize(t.size)
  IN  IF t.exited
        THEN [st EXCEPT !.trades[tid].status = "closed"]
      ELSE IF t.og = 0
        THEN [st EXCEPT !.trades[tid].status = "open"]
      ELSE IF ~HasValidLegs(t)
        THEN IF stale
               THEN [st EXCEPT !.messages =
                       RegisterTradeMsg(@, Msg(tid, CODE_TACTIC, 0, 0))]
             ELSE st
      ELSE IF price = 0
        THEN [st EXCEPT !.messages =
                RegisterTradeMsg(@, Msg(tid, CODE_PRICING, 0, 0))]
      ELSE IF OutOfBand(t.og, price)
        THEN [st EXCEPT !.messages =
                RegisterTradeMsg(@, Msg(tid, CODE_ENTRY_BAND, 0, price))]
      ELSE [st EXCEPT !.trades[tid].status = "open",
                      !.trades[tid].size = size]

RECURSIVE PreCheckTrades(_, _, _, _)
PreCheckTrades(st, todo, ks, stale) ==
  IF todo = {} THEN st
  ELSE LET tid == CHOOSE t \in todo : \A u \in todo : t <= u
       IN  PreCheckTrades(PreCheckTrade(st, tid, ks[tid], stale),
                          todo \ {tid}, ks, stale)

sync_pre_check_trades ==
  /\ pc = "sync_pre_check_trades"
  /\ LET todo == {t \in DOMAIN trades : trades[t].status = "pre-open-check"}
     IN  \E ks \in [todo -> PriceKs], stale \in BOOLEAN :
           LET st == PreCheckTrades([trades |-> trades, messages |-> messages],
                                    todo, ks, stale)
           IN  /\ Fits(st.messages, messages, MaxMsgs)
               /\ trades' = st.trades
               /\ messages' = st.messages
  /\ pc' = NextPhase(pc)
  /\ UNCHANGED <<core_errors, waiting_test, test_mode, positions, subs, active, app, wire>>
  /\ UNCHANGED <<sheet, orders, executions, last_id, uid_clock, threads,
                 market, opened30, noon, fills>>

\* one cycle of run_ib_database, phase by phase
Cycle ==
  \/ sync_gsheet_trades
  \/ request_ib_contract_ids
  \/ sync_price_subscriptions
  \/ sync_pre_check_trades
  \/ sync_peg_limit_orders
  \/ sync_opening_orders
  \/ evaluate_trades
  \/ place_orders
  \/ maybe_request_executions
  \/ sync_fills
  \/ process_trade_messages
  \/ delete_old_prices
  \/ delete_old_positions
  \/ sync_positions
  \/ sync_timed_out_orders
  \/ sync_expired_trades

(* The supervisor with the gateway reporting fills, the pause after a fill   *)
(* running out, and the operator closing rows by hand.                       *)
Next ==
  \/ Cycle
  \/ \E k \in LegKeys : contractDetailsEnd(k)
  \/ BrokerFill
  \/ Pause
  \/ \E i \in 1..NRows : UserClosesRow(i)

Spec == Init /\ [][Next]_vars

(* the supervisor with orders that fill in one report and the gateway       *)
(* reporting that an order was cancelled                                     *)
NextFaults ==
  \/ Cycle
  \/ BrokerFillsOrder
  \/ Pause
  \/ \E r \in 1..last_id : error(r, CODE_CANCELLED)

SpecFaults == Init /\ [][NextFaults]_vars

(* The supervisor with the gateway cancelling placed orders one after the   *)
(* other, with room for the replacements of a closing order and for the     *)
(* message of every cancellation.                                            *)
MaxCancelOrders == 4
MaxCancelMsgs == 3

PlacedIds ==
  {orders[o].request_id : o \in {x \in DOMAIN orders : orders[x].status = "placed"}}

NextCancel ==
  \/ Cycle
  \/ BrokerFillsOrder
  \/ Pause
  \/ process_trade_messages_within(MaxCancelOrders, MaxCancelMsgs)
  \/ \E r \in PlacedIds : error_within(r, CODE_CANCELLED, MaxCancelMsgs)

SpecCancel == Init /\ [][NextCancel]_vars

(* the supervisor with orders that fill in one report and a sheet that      *)
(* cannot always be reached when sync_fills writes to it                    *)
NextSheet ==
  \/ Cycle
  \/ sync_fills_sheet_down
  \/ BrokerFillsOrder
  \/ Pause

SpecSheet == Init /\ [][NextSheet]_vars

(* the supervisor ingesting a sheet of KeyRows rows whose contracts differ  *)
(* in security type, in strike, or in the option contracts or the ratios    *)
(* of their legs                                                            *)
KeyShapes ==
  { Shape("STK", 50000, <<11>>, <<9>>, FALSE, FALSE, <<>>),
    Shape("OPT", 500, <<11>>, <<9>>, FALSE, FALSE, <<>>),
    [Shape("OPT", 500, <<11>>, <<9>>, FALSE, FALSE, <<>>) EXCEPT !.strike = 160],
    Shape("BAG", 300, <<11>>, <<9>>, FALSE, FALSE,
          <<Leg("BUY", 1, 150), Leg("SELL", 2, 160)>>),
    Shape("BAG", 300, <<11>>, <<9>>, FALSE, FALSE,
          <<Leg("BUY", 1, 160), Leg("SELL", 2, 170)>>),
    Shape("BAG", 300, <<11>>, <<9>>, FALSE, FALSE,
          <<Leg("BUY", 1, 150), Leg("SELL", 1, 160)>>) }

InitKeys ==
  /\ sheet \in [1..KeyRows -> {Row(sh) : sh \in KeyShapes}]
  /\ trades = <<>>
  /\ orders = <<>>
  /\ executions = <<>>
  /\ messages = <<>>
  /\ last_id = 0
  /\ uid_clock = 0
  /\ pc = "sync_gsheet_trades"
  /\ threads = [keys |-> {}, running |-> {}]
  /\ market = "open"
  /\ opened30 = FALSE
  /\ noon = "before"
  /\ fills = <<>>
  /\ core_errors = 0
  /\ waiting_test = FALSE
  /\ test_mode = FALSE
  /\ positions = {}
  /\ subs = {}
  /\ active = {}
  /\ app = NoApp
  /\ wire = NoWire

NextKeys == Cycle

SpecKeys == InitKeys /\ [][NextKeys]_vars

(* the supervisor with a spread on the sheet, entered for a debit or for a  *)
(* credit, or an option, bought with two targets or sold short with two     *)
(* stops; the gateway resolves the legs, and the orders fill in one report  *)
(* at a price that has moved                                                *)
CloseShapes ==
  { Shape("BAG", 300, <<11>>, <<9>>, FALSE, TRUE,
          <<Leg("BUY", 1, 150), Leg("SELL", 2, 160)>>),
    Shape("BAG", -300, <<11>>, <<9>>, FALSE, TRUE,
          <<Leg("SELL", 1, 150), Leg("BUY", 2, 160)>>),
    Shape("OPT", -500, <<9>>, <<11, 12>>, FALSE, TRUE, <<>>),
    Shape("OPT", 300, <<11, 12>>, <<9>>, FALSE, TRUE, <<>>) }

InitClose ==
  /\ sheet \in [1..NRows -> {Row(sh) : sh \in CloseShapes}]
  /\ trades = <<>>
  /\ orders = <<>>
  /\ executions = <<>>
  /\ messages = <<>>
  /\ last_id = 0
  /\ uid_clock = 0
  /\ pc = "sync_gsheet_trades"
  /\ threads = [keys |-> {}, running |-> {}]
  /\ market = "open"
  /\ opened30 = FALSE
  /\ noon = "before"
  /\ fills = <<>>
  /\ core_errors = 0
  /\ waiting_test = FALSE
  /\ test_mode = FALSE
  /\ positions = {}
  /\ subs = {}
  /\ active = {}
  /\ app = NoApp
  /\ wire = NoWire

NextClose ==
  \/ Cycle
  \/ \E k \in LegKeys : contractDetailsEnd(k)
  \/ BrokerFillsOrderAt
  \/ Pause

SpecClose == InitClose /\ [][NextClose]_vars

(* place_order on its own inputs: the tables hold one spread, each of its   *)
(* legs resolved by the gateway or not, and the ready opening order of the  *)
(* spread; the supervisor is about to run place_orders.                      *)
PlaceShapes == {sh \in CloseShapes : sh.sec = "BAG"}

InitPlace ==
  \E sh \in PlaceShapes :
    LET st == RegisterTrades([sheet |-> <<Row(sh)>>, trades |-> <<>>,
                              uid |-> 0], 1)
        t == st.trades[1]
    IN  \E resolved \in SUBSET DOMAIN t.legs :
          /\ sheet = st.sheet
          /\ trades = <<[t EXCEPT !.status = "open",
                                  !.legs = [i \in DOMAIN t.legs |->
                                              [t.legs[i] EXCEPT
                                                 !.con_id = i \in resolved]]]>>
          /\ uid_clock = st.uid
          /\ orders = <<NewOrder(1, t.u_id, t.contract, OpeningAction(t),
                                 1, 0, "LMT", "", Abs(sh.entry))>>
  /\ executions = <<>>
  /\ messages = <<>>
  /\ last_id = 0
  /\ pc = "place_orders"
  /\ threads = [keys |-> {}, running |-> {}]
  /\ market = "open"
  /\ opened30 = FALSE
  /\ noon = "before"
  /\ fills = <<>>
  /\ core_errors = 0
  /\ waiting_test = FALSE
  /\ test_mode = FALSE
  /\ positions = {}
  /\ subs = {}
  /\ active = {}
  /\ app = NoApp
  /\ wire = NoWire

NextPlace ==
  \/ Cycle
  \/ \E k \in LegKeys : contractDetailsEnd(k)
  \/ BrokerFillsOrderAt
  \/ Pause

SpecPlace == InitPlace /\ [][NextPlace]_vars

\* the supervisor with the peg-chaser threads and the close of the exchange
NextChaser ==
  \/ Cycle
  \/ BrokerFillsOrder
  \/ Pause
  \/ Chaser
  \/ MarketCloses

SpecChaser == Init /\ [][NextChaser]_vars

\* the supervisor with orders that fill in one report, and the clock
NextClock ==
  \/ Cycle
  \/ BrokerFillsOrder
  \/ Tick
  \/ Clock

SpecClock == Init /\ [][NextClock]_vars

(* the supervisor over more than five days, with the gateway resolving the  *)
(* legs of a spread and no order filling                                    *)
NextWeek ==
  \/ Cycle
  \/ \E k \in LegKeys : contractDetailsEnd(k)
  \/ Days

SpecWeek == Init /\ [][NextWeek]_vars

\* ------------------------------------------------- ib.IbApp.close_trade
\* the largest position and trade size ib.IbApp.close_trade is tried with
MaxHeld == 3

\* the account of the portfolio and the contract keys it can hold
ACCOUNT == "DU1"

PortfolioKeys == {"NVDA", "AAPL"}

(* IbApp.portfolio: per account name a dict from contract key to the data of *)
(* updatePortfolio; here the rows of the one account, or no account at all.  *)
Portfolios ==
  {[accounts |-> {}, rows |-> {}]} \cup
  {[accounts |-> {ACCOUNT}, rows |-> r] :
     r \in {{}} \cup {{[key |-> k, position |-> n]} :
                        k \in PortfolioKeys, n \in -1..MaxHeld}}

(* IbApp.get_checked_order_qty.  acc_key is the first account name,          *)
(* portfolio the dict of that account, and the row is looked up under        *)
(* acc_key again (c_key is computed and not used).  "raise": IndexError on   *)
(* a portfolio without an account, given as -1.                              *)
CheckedOrderQty(pf, c_key, qty, action) ==
  IF action # "SELL" THEN qty
  ELSE IF pf.accounts = {} THEN -1
  ELSE LET acc_key == CHOOSE a \in pf.accounts : TRUE
           acc_data == {r \in pf.rows : r.key = acc_key}
       IN  IF acc_data = {} THEN 0
           ELSE LET cur_qty == (CHOOSE r \in acc_data : TRUE).position
                IN  IF cur_qty >= qty THEN qty
                    ELSE IF cur_qty < 0 THEN 0
                    ELSE qty

(* The calls of IbApp.close_trade: a trade with size_open, its contract key, *)
(* whether it is locked, the quantity to close, whether an execution is      *)
(* handed in, and IbApp.execute_trades.                                       *)
AppCalls ==
  [at : {"close_trade"}, size_open : (-MaxHeld..MaxHeld) \ {0},
   c_key : {"NVDA"}, locked : BOOLEAN, valid : {TRUE}, qty : 1..MaxHeld,
   execution : BOOLEAN, execute_trades : BOOLEAN, portfolio : Portfolios,
   lock_taken : {FALSE}, placed : {0}, placed_action : {""},
   sheet_closed : {FALSE}, notified : {FALSE}]

(* IbApp.close_trade on the call a; locked is Trade.locked at the call,      *)
(* lock_taken that the call has locked the trade.  Trade.lock raises on a    *)
(* trade already locked; IbApp.place_order refuses a locked trade, sends a   *)
(* market order otherwise and locks the trade.  No branch notifies anyone.   *)
CloseTrade(a) ==
  LET action == IF a.size_open < 0 THEN "BUY" ELSE "SELL"
      checked == CheckedOrderQty(a.portfolio, a.c_key, a.qty, action)
  IN  IF Abs(a.qty) > Abs(a.size_open) THEN [a EXCEPT !.at = "raised"]
      ELSE IF ~a.execution /\ a.execute_trades
        THEN IF checked = -1 THEN [a EXCEPT !.at = "raised"]
             ELSE IF checked = 0
               THEN IF a.locked
                      THEN [a EXCEPT !.at = "raised", !.valid = FALSE]
                    ELSE [a EXCEPT !.at = "done", !.valid = FALSE,
                                   !.lock_taken = TRUE]
             ELSE IF a.locked THEN [a EXCEPT !.at = "done"]
             ELSE [a EXCEPT !.at = "done", !.placed = checked,
                            !.placed_action = action, !.lock_taken = TRUE]
      ELSE [a EXCEPT !.at = "done", !.sheet_closed = TRUE]

close_trade ==
  /\ app.at = "close_trade"
  /\ app' = CloseTrade(app)
  /\ UNCHANGED <<sheet, trades, orders, executions, messages, last_id,
                 uid_clock, pc, threads, market, opened30, noon, fills,
                 core_errors, waiting_test, test_mode, positions, subs,
                 active, wire>>

\* the supervisor of ibdb.py does not run: only IbApp of ib.py acts
InitApp ==
  /\ sheet = <<>>
  /\ trades = <<>>
  /\ orders = <<>>
  /\ executions = <<>>
  /\ messages = <<>>
  /\ last_id = 0
  /\ uid_clock = 0
  /\ pc = "done"
  /\ threads = [keys |-> {}, running |-> {}]
  /\ market = "open"
  /\ opened30 = FALSE
  /\ noon = "before"
  /\ fills = <<>>
  /\ core_errors = 0
  /\ waiting_test = FALSE
  /\ test_mode = FALSE
  /\ positions = {}
  /\ subs = {}
  /\ active = {}
  /\ app \in AppCalls
  /\ wire = NoWire

NextApp == close_trade

SpecApp == InitApp /\ [][NextApp]_vars

(* Sheets with a tactic that does not parse next to rows that do.           *)
TacticShapes ==
  { Shape("STK", 50000, <<11>>, <<9>>, FALSE, FALSE, <<>>),
    Shape("OPT", 500, <<11>>, <<9>>, FALSE, FALSE, <<>>),
    [Shape("OPT", 500, <<11>>, <<9>>, FALSE, FALSE, <<>>)
       EXCEPT !.tactic = "unparsable"],
    [Shape("STK", 50000, <<11>>, <<9>>, FALSE, FALSE, <<>>)
       EXCEPT !.tactic = "no_side"] }

InitTactic ==
  /\ sheet \in [1..KeyRows -> {Row(sh) : sh \in TacticShapes}]
  /\ trades = <<>>
  /\ orders = <<>>
  /\ executions = <<>>
  /\ messages = <<>>
  /\ last_id = 0
  /\ uid_clock = 0
  /\ pc = "sync_gsheet_trades"
  /\ threads = [keys |-> {}, running |-> {}]
  /\ market = "open"
  /\ opened30 = FALSE
  /\ noon = "before"
  /\ fills = <<>>
  /\ core_errors = 0
  /\ waiting_test = FALSE
  /\ test_mode = FALSE
  /\ positions = {}
  /\ subs = {}
  /\ active = {}
  /\ app = NoApp
  /\ wire = NoWire

NextTactic == Cycle

SpecTactic == InitTactic /\ [][NextTactic]_vars

\* ------------------------------------- place_order against IbDbApp.error
(* place_order, lines 1143-1161, for the first ready order it can place:    *)
(* the request id is assigned, the status set and the order handed to the   *)
(* gateway, all in the session of the supervisor, which has not committed.   *)
place_order_sent ==
  /\ pc = "place_orders"
  /\ market = "open"
  /\ wire.sent.order = 0
  /\ \E oid \in DOMAIN orders :
       /\ orders[oid].status = "ready" /\ CanPlace(trades, orders[oid])
       /\ \A u \in DOMAIN orders :
            orders[u].status = "ready" /\ CanPlace(trades, orders[u]) => oid <= u
       /\ LET fresh == orders[oid].request_id = 0
              rid == IF fresh THEN last_id + 1 ELSE orders[oid].request_id
          IN  /\ wire' = [wire EXCEPT !.sent = [order |-> oid, rid |-> rid]]
              /\ last_id' = IF fresh THEN rid ELSE last_id
  /\ UNCHANGED <<sheet, trades, orders, executions, messages, uid_clock, pc,
                 threads, market, opened30, noon, fills, core_errors,
                 waiting_test, test_mode, positions, subs, active, app>>

\* place_order, line 1162: session.commit() makes the order visible
place_order_commit ==
  /\ wire.sent.order # 0
  /\ orders' = [orders EXCEPT ![wire.sent.order].request_id = wire.sent.rid,
                              ![wire.sent.order].status = "placed"]
  /\ wire' = [wire EXCEPT !.sent = NoWire.sent]
  /\ UNCHANGED <<sheet, trades, executions, messages, last_id, uid_clock, pc,
                 threads, market, opened30, noon, fills, core_errors,
                 waiting_test, test_mode, positions, subs, active, app>>

(* IbDbApp.error -> call_with_session(register_ib_error) on the callback    *)
(* thread, in a session of its own: it sees the committed rows.  An order   *)
(* with the request id goes to error and gets the message; without one the  *)
(* subscriptions are searched, and a request id of neither is dropped.       *)
error_answer(req_id, code) ==
  /\ req_id \notin wire.failed
  /\ LET found == {o \in DOMAIN orders : orders[o].request_id = req_id}
     IN  IF found # {}
           THEN LET o == OrderOf(orders, req_id)
                    m == Msg(orders[o].trade, code, req_id, 0)
                IN  /\ orders' = [orders EXCEPT ![o].status = "error"]
                    /\ messages' = IF orders[o].trade # 0
                                     THEN RegisterTradeMsg(messages, m)
                                   ELSE Append(messages, m)
         ELSE UNCHANGED <<orders, messages>>
  /\ Fits(messages', messages, MaxMsgs)
  /\ wire' = [wire EXCEPT !.failed = @ \cup {req_id}]
  /\ UNCHANGED <<sheet, trades, executions, last_id, uid_clock, pc, threads,
                 market, opened30, noon, fills, core_errors, waiting_test,
                 test_mode, positions, subs, active, app>>

\* the request ids the gateway can answer: those of orders it was handed
RequestIdsSent ==
  {orders[o].request_id : o \in {x \in DOMAIN orders :
                                   orders[x].status = "placed"}}
    \cup (IF wire.sent.order # 0 THEN {wire.sent.rid} ELSE {})

NextRace ==
  \/ Cycle
  \/ place_order_sent
  \/ place_order_commit
  \/ \E r \in RequestIdsSent : error_answer(r, CODE_CANCELLED)

SpecRace == Init /\ [][NextRace]_vars

(* The supervisor with subscriptions that fall silent and the operator      *)
(* closing rows by hand, so that contracts lose their last trade.            *)
NextSubs ==
  \/ Cycle
  \/ sync_price_subscriptions_stale
  \/ \E i \in 1..NRows : UserClosesRow(i)

SpecSubs == Init /\ [][NextSubs]_vars

(* the supervisor from before the open to past the close, with the          *)
(* operator switching the test mode and closing rows by hand                *)
Supervisor == Cycle \/ test_mode_pause \/ wait_for_open \/ shut_down

NextDay ==
  \/ Supervisor
  \/ MarketOpens
  \/ MarketCloses
  \/ TailEnds
  \/ ToggleTestMode
  \/ \E i \in 1..NRows : UserClosesRow(i)

SpecDay == Init /\ [][NextDay]_vars /\ WF_vars(Supervisor)

(* the supervisor with orders that fill in one report and the gateway       *)
(* reporting the position of the account on a contract no row trades        *)
(* run_ib_database, lines 2527-2536, when the program is started again      *)
(* after the loop has ended by its break or by an exception: the counters   *)
(* start over and every subscription row loses request_id and               *)
(* date_requested; the column active is left as the last run wrote it.       *)
start_up ==
  /\ pc \in {"dead", "done"}
  /\ pc' = "sync_gsheet_trades"
  /\ core_errors' = 0
  /\ waiting_test' = FALSE
  /\ subs' = {}
  /\ threads' = [keys |-> {}, running |-> {}]
  /\ UNCHANGED <<sheet, trades, orders, executions, messages, last_id,
                 uid_clock, market, opened30, noon, fills, test_mode,
                 positions, active, app, wire>>

NextStart == NextDay \/ start_up

SpecStart == Init /\ [][NextStart]_vars

PositionQtys == {-2, 0, 2}

NextPositions ==
  \/ Cycle
  \/ BrokerFillsOrder
  \/ \E qty \in PositionQtys : position(OrphanKey, qty)

SpecPositions == Init /\ [][NextPositions]_vars

(* The orphan check with the switch SYNC_POSITIONS in either position: the  *)
(* gateway reports the position on a contract no row trades, again and      *)
(* again, while the supervisor runs its cycles.                              *)
NextOrphan ==
  \/ Cycle
  \/ sync_positions_if(TRUE)
  \/ \E qty \in PositionQtys : position(OrphanKey, qty)

SpecOrphan == Init /\ [][NextOrphan]_vars


(* The gateway alone: execDetailsEnd with any batch of up to MaxBatch queued *)
(* executions of request 1, which repeats exec ids within the batch and      *)
(* across batches with the same or another payload.                          *)
ReportedExecutions ==
  {Execution(<<1, 0, fill, corr>>, 1, fill, px, "NVDA", "BOT", corr) :
     fill \in 1..2, corr \in 1..2, px \in {100, 101}}

Batches ==
  UNION {[1..n -> ReportedExecutions] : n \in 1..MaxBatch}

NextExec == \E batch \in Batches : execDetailsEnd(batch)

SpecExec == Init /\ [][NextExec]_vars

\* =================================================================== claims
\* the order status changes the life cycle allows in one step
OrderStepOk(a, b) ==
  \/ a = b
  \/ a = "ready" /\ b = "placed"
  \/ a = "placed" /\ b \in {"complete", "error"}

(* C1: the status of an order only moves ready -> placed -> complete, or     *)
(* placed -> error: it never goes from ready to error, never leaves complete *)
(* or error, and never enters placed again.                                  *)
C1_OrderStatusPath ==
  [][\A o \in DOMAIN orders : OrderStepOk(orders[o].status, orders'[o].status)]_vars

\* the trade status changes the spec's life cycle allows in one step
TradeStepOk(a, b) ==
  \/ a = b
  \/ a = "pre-open-check" /\ b = "open"
  \/ a = "open" /\ b = "closed"
  \/ a \in {"pre-open-check", "open"} /\ b = "error"

(* C2 as the spec states it: a trade starts in pre-open-check and its status *)
(* only moves pre-open-check -> open -> closed, or to error; no trade is     *)
(* closed without having been open, and none leaves closed or error.         *)
C2_TradeStatusPath ==
  [][/\ \A t \in DOMAIN trades :
          TradeStepOk(trades[t].status, trades'[t].status)
     /\ \A t \in DOMAIN trades' \ DOMAIN trades :
          trades'[t].status = "pre-open-check"]_vars

\* the trade status changes the code makes in one step
TradeStepMade(a, b) ==
  \/ TradeStepOk(a, b)
  \/ a \in {"pre-open-check", "error"} /\ b = "closed"

(* C2, amended: a trade row is born in pre-open-check, or born closed when   *)
(* it records a partial close (then it names its parent); its status moves   *)
(* pre-open-check -> open -> closed, from pre-open-check or open to error,   *)
(* and from pre-open-check or error to closed; nothing leaves closed, and    *)
(* error is only left for closed.                                            *)
C2_TradeStatusPathAmended ==
  [][/\ \A t \in DOMAIN trades :
          TradeStepMade(trades[t].status, trades'[t].status)
     /\ \A t \in DOMAIN trades' \ DOMAIN trades :
          \/ trades'[t].status = "pre-open-check"
          \/ trades'[t].status = "closed" /\ trades'[t].parent \in DOMAIN trades]_vars

\* C2 witness: a partial close was recorded and its parent was closed later
C2_Witness ==
  \E t \in DOMAIN trades, c \in DOMAIN trades :
    /\ trades[c].parent = t
    /\ trades[c].status = "closed"
    /\ trades[t].status = "closed"

\* the quantity of the completed closing orders of trade t
ClosedQty(t) ==
  SumAbsQty(orders, OrdersCompletedByAction(orders, t, ClosingAction(trades[t])))

(* C3: for every trade with a total quantity, whichever of evaluate_trades,  *)
(* sync_expired_trades, sync_gsheet_manually_closed_trades and               *)
(* process_trade_messages emitted its orders: the completed closing quantity *)
(* is at most total_qty, left_qty is not negative, and bought plus sold is   *)
(* at most twice total_qty.                                                  *)
C3_NeverOverClosed ==
  \A t \in DOMAIN trades :
    HasTotalQty(orders, trades, t) =>
      /\ ClosedQty(t) <= TotalQty(orders, trades, t)
      /\ LeftQty(orders, trades, t) >= 0
      /\ BoughtQty(orders, t) + SoldQty(orders, t) <= 2 * TotalQty(orders, trades, t)

\* the valid executions stored for the order with index o
ValidOf(o) ==
  ValidExecutions(executions,
                  ExecutionsByOrderId(executions, orders[o].request_id))

(* C4: an order that is complete has, among its stored executions that are   *)
(* the latest correction of their fill, one whose cumulative quantity is at  *)
(* least the order quantity; for a BAG order every leg has one that covers   *)
(* the order quantity times the ratio of the leg.                            *)
C4_CompleteIsFilled ==
  \A o \in DOMAIN orders :
    orders[o].status = "complete" =>
      IF orders[o].trade # 0 /\ trades[orders[o].trade].sec = "BAG"
        THEN \A l \in DOMAIN trades[orders[o].trade].legs :
               \E i \in ValidOf(o) :
                 /\ executions[i].contract = trades[orders[o].trade].legs[l].contract
                 /\ executions[i].cum_qty >=
                      Abs(orders[o].qty) * trades[orders[o].trade].legs[l].ratio
      ELSE \E i \in ValidOf(o) : executions[i].cum_qty >= Abs(orders[o].qty)

\* C4 witness: an order is complete after a partial fill, a fill and a
\* correction of the fill were stored for it
C4_Witness ==
  \E o \in DOMAIN orders :
    /\ orders[o].status = "complete"
    /\ \E i \in ExecutionsByOrderId(executions, orders[o].request_id) :
         executions[i].correction_id = 2
    /\ \E i \in ExecutionsByOrderId(executions, orders[o].request_id) :
         executions[i].cum_qty < Abs(orders[o].qty)

\* the row of exec id e.exec_id holds the payload of e
StoredAs(ex, e) ==
  \E i \in DOMAIN ex : ex[i] = ExecutionRow(e)

(* C5: register_executions keeps exactly one row per distinct exec id and    *)
(* never changes a stored row: every row stays as it was first stored, no    *)
(* exec id has two rows, and an exec id that was not stored is stored with   *)
(* the payload of its first occurrence in the batch - whether the id is      *)
(* repeated within a batch, across batches, or the whole history replayed.   *)
C5_OneRowPerExecId ==
  [][/\ \A i \in DOMAIN executions :
          i \in DOMAIN executions' /\ executions'[i] = executions[i]
     /\ \A i, j \in DOMAIN executions' :
          executions'[i].exec_id = executions'[j].exec_id => i = j
     /\ \A batch \in Batches :
          execDetailsEnd(batch) =>
            \A k \in DOMAIN batch :
              (/\ \A j \in 1..(k - 1) : batch[j].exec_id # batch[k].exec_id
               /\ \A i \in DOMAIN executions :
                     executions[i].exec_id # batch[k].exec_id)
                => StoredAs(executions', batch[k])]_vars

\* C5 witness: the table is full after several deliveries, and holds both
\* corrections of one fill
C5_Witness ==
  /\ Len(executions) = MaxExecs
  /\ \E i, j \in DOMAIN executions :
       /\ executions[i].base_exec_id = executions[j].base_exec_id
       /\ executions[i].correction_id # executions[j].correction_id

\* the reports of the gateway that only repeat stored exec ids of order o
Redeliveries(o) ==
  {b \in {BrokerBatch(o, fill, corr, dp) : fill \in 1..2, corr \in 1..2, dp \in 0..1} :
     \A k \in DOMAIN b :
       \E i \in DOMAIN executions : executions[i].exec_id = b[k].exec_id}

\* the trades sync_fills registered to record a partial close
PartialRows == {t \in DOMAIN trades : trades[t].parent # 0}

(* C6: delivering again an execution of an order that is reconciled changes  *)
(* nothing: register_executions leaves the table as it is, the order stays   *)
(* complete, and sync_fills reconciles no order a second time - no second    *)
(* sheet close, and exactly one partial row per partial close.               *)
C6_RedeliveryChangesNothing ==
  [][/\ \A o \in DOMAIN orders :
          orders[o].status = "complete" =>
            /\ orders'[o].status = "complete"
            /\ \A b \in Redeliveries(o) :
                 RegisterExecutions(executions, b) = executions
     /\ \A i, j \in DOMAIN fills' : fills'[i].order = fills'[j].order => i = j
     /\ Cardinality({t \in DOMAIN trades' : trades'[t].parent # 0})
          = Cardinality({i \in DOMAIN fills' : fills'[i].kind = "partial"})]_vars

\* C6 witness: a partial close and the full close of a trade are reconciled,
\* and the gateway can deliver the executions of both orders again
C6_Witness ==
  \E o, p \in DOMAIN orders :
    /\ orders[o].status = "complete" /\ orders[p].status = "complete"
    /\ \E i, j \in DOMAIN fills :
         /\ fills[i].order = o /\ fills[i].kind = "partial"
         /\ fills[j].order = p /\ fills[j].kind = "full"
    /\ Redeliveries(o) # {} /\ Redeliveries(p) # {}
    /\ Sleeping

(* C7: evaluate_trades registers no order for a trade that has an order in   *)
(* status ready or placed when the pass starts.                              *)
C7_LockedTradesNotEvaluated ==
  [][pc = "evaluate_trades" =>
       \A o \in DOMAIN orders' \ DOMAIN orders :
         ~HasPendingOrder(orders, orders'[o].trade)]_vars

\* C7 witness: evaluate_trades has just run over an opened trade whose order
\* is still placed, and has registered nothing for it
C7_Witness ==
  /\ pc = "place_orders"
  /\ \E t \in DOMAIN trades :
       /\ trades[t].entry # 0 /\ ~trades[t].exited /\ trades[t].u_id # 0
       /\ \E o \in DOMAIN orders :
            /\ orders[o].trade = t /\ orders[o].status = "placed"
            /\ orders[o].action = ClosingAction(trades[t])
       /\ \A o \in DOMAIN orders :
            orders[o].trade = t => orders[o].status # "ready"

\* sync_fills completes order o in this step, and it is the only closing
\* order of its trade that it completes
ClosingOrderCompletes(o) ==
  /\ pc = "sync_fills"
  /\ orders[o].status = "placed" /\ orders'[o].status = "complete"
  /\ orders[o].trade # 0
  /\ orders[o].action = ClosingAction(trades[orders[o].trade])
  /\ orders[o].action # OpeningAction(trades[orders[o].trade])
  /\ \A p \in DOMAIN orders :
       (p # o /\ orders[p].trade = orders[o].trade /\ orders[p].status = "placed")
         => orders'[p].status = "placed"

(* C8: when sync_fills completes a closing order, the trade is closed, with  *)
(* date_exited and exit_price set, exactly when the quantity closed by the   *)
(* orders completed earlier plus the executed quantity of this order reaches *)
(* total_qty; otherwise the trade stays open with date_exited empty and a    *)
(* new closed trade that names it as parent records the partial close.       *)
C8_ClosedWhenTotalReached ==
  [][\A o \in DOMAIN orders :
       ClosingOrderCompletes(o) =>
         LET t == orders[o].trade
             qty == ExecutedQty(executions, trades, orders[o], ValidOf(o))
         IN  IF ClosedQty(t) + Abs(qty) >= TotalQty(orders, trades, t)
               THEN /\ trades'[t].status = "closed"
                    /\ trades'[t].exited
                    /\ trades'[t].exit # 0
                    /\ DOMAIN trades' = DOMAIN trades
             ELSE /\ trades'[t].status = "open"
                  /\ ~trades'[t].exited
                  /\ \E c \in DOMAIN trades' \ DOMAIN trades :
                       trades'[c].parent = t /\ trades'[c].status = "closed"]_vars

\* C8 witness: sync_fills has just recorded a partial close: the trade is
\* open with a closing order complete, and a closed child names it
C8_Witness ==
  /\ pc = "process_trade_messages"
  /\ \E t \in DOMAIN trades, c \in DOMAIN trades :
       /\ trades[t].status = "open" /\ ~trades[t].exited
       /\ trades[c].parent = t /\ trades[c].status = "closed"
       /\ 0 < ClosedQty(t) /\ ClosedQty(t) < TotalQty(orders, trades, t)

\* the step is the pass of sync_pre_check_trades in which the market offers
\* the prices ks
PreCheckPass(ks, stale) ==
  LET todo == {t \in DOMAIN trades : trades[t].status = "pre-open-check"}
      st == PreCheckTrades([trades |-> trades, messages |-> messages],
                           todo, ks, stale)
  IN  /\ pc = "sync_pre_check_trades"
      /\ trades' = st.trades
      /\ messages' = st.messages

\* whatever prices the market offered in this pass, trade t had a price, and
\* one within 5% of its original entry price
PricedInBand(t) ==
  \A ks \in [{u \in DOMAIN trades : trades[u].status = "pre-open-check"} -> PriceKs],
     stale \in BOOLEAN :
    PreCheckPass(ks, stale) =>
      /\ ks[t] # 0
      /\ trades[t].og # 0 =>
           LET price == (Abs(trades[t].og) * ks[t]) \div 100
               entry == 100 * Abs(trades[t].og)
           IN  /\ (100 - PCT_BAND) * price <= entry
               /\ entry <= (100 + PCT_BAND) * price

\* sync_pre_check_trades opens trade t in this step
Opens(t) ==
  /\ pc = "sync_pre_check_trades"
  /\ trades[t].status = "pre-open-check"
  /\ trades'[t].status = "open"

FullyCloses(t) ==
  /\ pc = "sync_fills"
  /\ trades[t].status # "closed"
  /\ trades'[t].status = "closed"

(* C10 as the spec states it: a u_id, once assigned to a trade or written    *)
(* to a sheet row, never changes: not through later ingests, opening fills,  *)
(* partial closes or the full close.                                         *)
C10_UidNeverChanges ==
  [][/\ \A t \in DOMAIN trades :
          trades[t].u_id # 0 => trades'[t].u_id = trades[t].u_id
     /\ \A i \in DOMAIN sheet :
          sheet[i].u_id # 0 => sheet'[i].u_id = sheet[i].u_id]_vars

(* C10, amended: a row entered within the last two days gets one u_id at its *)
(* first ingest, no two rows share a u_id, and the u_id of a trade and of    *)
(* its row stays the same through later ingests, opening fills and partial   *)
(* closes; the full close replaces it, on the trade and on the row alike, by *)
(* a u_id that was never used before.                                        *)
C10_UidStableUntilFullClose ==
  [][/\ \A t \in DOMAIN trades :
          trades[t].u_id # 0 =>
            IF FullyCloses(t)
              THEN /\ trades'[t].u_id > uid_clock
                   /\ \E i \in DOMAIN sheet :
                        /\ sheet[i].u_id = trades[t].u_id
                        /\ sheet'[i].u_id = trades'[t].u_id
                        /\ sheet'[i].exited
              ELSE trades'[t].u_id = trades[t].u_id
     /\ \A i \in DOMAIN sheet :
          sheet[i].u_id # 0 /\ sheet'[i].u_id # sheet[i].u_id =>
            \E t \in DOMAIN trades :
              FullyCloses(t) /\ trades[t].u_id = sheet[i].u_id
     /\ pc = "sync_gsheet_trades" /\ pc' = "request_ib_contract_ids" =>
          \A i \in DOMAIN sheet' :
            ~sheet'[i].exited /\ ~sheet'[i].shape.old => sheet'[i].u_id # 0
     /\ \A i, j \in DOMAIN sheet' :
          i # j /\ sheet'[i].u_id # 0 => sheet'[i].u_id # sheet'[j].u_id]_vars

(* C10 witness: a trade that was ingested, opened, closed in part and then   *)
(* closed in full carries the u_id of its exited row.                        *)
C10_Witness ==
  \E t \in DOMAIN trades :
    /\ trades[t].status = "closed" /\ trades[t].parent = 0
    /\ trades[t].u_id # 0
    /\ \E i \in DOMAIN sheet :
         sheet[i].u_id = trades[t].u_id /\ sheet[i].exited
    /\ \E c \in DOMAIN trades : trades[c].parent = t
    /\ \E f \in DOMAIN fills : fills[f].kind = "full"

(* C11: when a phase of the supervisor raises, the failure is counted and   *)
(* the loop goes on with the next phase; only the 7th failure ends the loop. *)
C11_FailuresTolerated ==
  [][core_errors' # core_errors =>
       /\ core_errors' = core_errors + 1
       /\ IF core_errors' < MAX_CORE_ERRORS THEN pc' = NextPhase(pc)
          ELSE pc' = "dead"]_vars

\* the order of the phases as the specification lists it
ListedOrder ==
  <<"sync_gsheet_trades",         \* ingest sheet
    "request_ib_contract_ids",    \* request leg ids
    "sync_price_subscriptions",   \* sync subscriptions
    "sync_pre_check_trades",      \* pre-open check
    "sync_peg_limit_orders",      \* peg chasers
    "sync_opening_orders",        \* opening orders
    "evaluate_trades",            \* evaluate
    "place_orders",               \* place pending orders
    "maybe_request_executions",   \* request executions
    "sync_fills",                 \* reconcile fills
    "process_trade_messages",     \* process messages
    "delete_old_prices",          \* housekeeping: delete old prices
    "delete_old_positions",       \* delete zero positions
    "sync_positions",             \* orphan check
    "sync_timed_out_orders",      \* timed-out orders
    "sync_expired_trades">>       \* expired contracts

(* C12: every step of the supervisor leads from one phase to the phase      *)
(* listed after it, the last phase to the first; a phase sees what the      *)
(* phases before it did in the same cycle: every trade without original     *)
(* entry price that was ingested is released before the chasers run, and    *)
(* every order registered that can be placed is placed before the           *)
(* executions are requested.                                                *)
C12_PhasesInOrder ==
  [][/\ pc' # pc =>
          \E i \in DOMAIN ListedOrder :
            /\ pc = ListedOrder[i]
            /\ pc' = ListedOrder[(i % Len(ListedOrder)) + 1]
     /\ pc = "sync_peg_limit_orders" =>
          \A t \in DOMAIN trades :
            trades[t].og = 0 /\ ~trades[t].exited =>
              trades[t].status # "pre-open-check"
     /\ pc = "maybe_request_executions" /\ market = "open" =>
          \A o \in DOMAIN orders :
            CanPlace(trades, orders[o]) => orders[o].status # "ready"]_vars

\* C12 witness: an order registered in a cycle was placed in that cycle
C12_Witness ==
  /\ pc = "maybe_request_executions"
  /\ \E o \in DOMAIN orders :
       orders[o].status = "placed" /\ orders[o].age = 0
       /\ orders[o].action = ClosingAction(trades[orders[o].trade])

\* the supervisor takes a turn of its loop at the head
TurnsAtHead ==
  /\ pc = "sync_gsheet_trades"
  /\ pc' # pc \/ waiting_test' # waiting_test

(* C13 as the spec states it: no cycle begins before the open, cycles begin *)
(* from the open until 30 minutes after the close, and a turn of the loop   *)
(* past close + 30 minutes ends it.                                         *)
C13_EndsPastClose ==
  [][/\ market = "pre" => pc' = pc
     /\ pc' = "done" => market = "over"
     /\ TurnsAtHead /\ market = "over" => pc' = "done"]_vars

(* C13, amended: while the sheet is in test mode the loop neither begins a  *)
(* cycle nor ends; out of test mode no cycle begins before the open, cycles *)
(* begin from the open until 30 minutes after the close, a turn of the loop *)
(* past close + 30 minutes ends it, and the loop does end once the time is  *)
(* past close + 30 minutes unless the test mode is switched on.             *)
C13_EndsPastCloseUnlessTestMode ==
  /\ [][/\ market = "pre" \/ test_mode => pc' = pc
        /\ pc' = "done" => market = "over" /\ ~test_mode
        /\ TurnsAtHead /\ pc' = "request_ib_contract_ids" =>
             market \in {"open", "closed"} /\ ~test_mode
        /\ TurnsAtHead /\ market = "over" /\ ~test_mode => pc' = "done"]_vars
  /\ (market = "over" /\ ~test_mode) ~> (ShutDown \/ Crashed \/ test_mode)

\* C13 witness: the loop has run cycles and ended past close + 30 minutes
C13_Witness ==
  /\ ShutDown
  /\ market = "over"
  /\ trades # <<>>

\* the orders that have been ready or placed for more than 15 minutes
Overdue == {o \in DOMAIN orders :
              orders[o].status \in {"ready", "placed"} /\ orders[o].age = 2}

\* the open messages of trade tid that say an order failed to execute
TimeoutMsgs(ms, tid) ==
  {i \in DOMAIN ms : ms[i].trade = tid /\ ms[i].code = CODE_TIMEOUT
                     /\ ms[i].status = "open"}

\* how often trade tid was told that an order failed to execute
TimeoutCount(ms, tid) ==
  SumSeq([i \in DOMAIN ms |-> IF i \in TimeoutMsgs(ms, tid) THEN ms[i].count
                              ELSE 0])

(* C14 as the spec states it: in market hours a pass of                     *)
(* sync_timed_out_orders moves every order that has been ready or placed    *)
(* for more than 15 minutes to error and leaves a 99991 message on its      *)
(* trade.                                                                   *)
C14_OverdueOrdersFail ==
  [][pc = "sync_timed_out_orders" /\ market = "open" =>
       \A o \in Overdue :
         /\ orders'[o].status = "error"
         /\ TimeoutMsgs(messages', orders[o].trade) # {}]_vars

(* C14, amended: in the first 30 minutes after the open a pass changes      *)
(* nothing; after them it moves exactly the orders that have been ready or  *)
(* placed for more than 15 minutes to error, and registers the 99991        *)
(* message once for each of them whose trade has no complete opening order: *)
(* a closing order that fails leaves no message.                            *)
C14_OverdueOrdersFailAfter30 ==
  [][pc = "sync_timed_out_orders" =>
       IF ~opened30 THEN UNCHANGED <<orders, messages>>
       ELSE /\ \A o \in DOMAIN orders :
                 orders'[o] = IF o \in Overdue
                                THEN [orders[o] EXCEPT !.status = "error"]
                              ELSE orders[o]
            /\ \A t \in DOMAIN trades :
                 TimeoutCount(messages', t) - TimeoutCount(messages, t)
                   = IF \E o \in DOMAIN orders :
                          /\ orders[o].trade = t
                          /\ orders[o].action = OpeningAction(trades[t])
                          /\ orders[o].status = "complete"
                       THEN 0
                     ELSE Cardinality({o \in Overdue : orders[o].trade = t})]_vars

\* C14 witness: a pass has failed an overdue order and told its trade
C14_Witness ==
  /\ pc = "sync_expired_trades"
  /\ \E o \in DOMAIN orders :
       /\ orders[o].status = "error" /\ orders[o].age = 2
       /\ TimeoutMsgs(messages, orders[o].trade) # {}

\* the chaser of request rid is running
Chasing(ths, rid) == \E th \in ths.running : th.rid = rid

\* th is the only chaser of its order
Alone(th) == ChasersOf(threads, th.rid) = {th}

\* this step is thread th ending
Ends(th) == th \in threads.running /\ threads'.running = threads.running \ {th}

\* this step is thread th going into another round after its timeout
NewRound(th) ==
  /\ th \in threads.running
  /\ threads' # threads
  /\ threads'.running =
       (threads.running \ {th}) \cup {[th EXCEPT !.rounds = @ + 1]}

C15_WitnessRestart ==
  \E th \in threads.running :
    /\ th.rounds > 0
    /\ LET o == OrderOf(orders, th.rid)
       IN  orders[o].action = ClosingAction(trades[orders[o].trade])

(* C16: at most one chaser thread is alive per order request id, however   *)
(* many cycles call process_pegged_order while the order stays placed.      *)
C16_OneChaserPerOrder ==
  \A o \in DOMAIN orders :
    orders[o].request_id # 0 =>
      Cardinality(ChasersOf(threads, orders[o].request_id)) <= 1

C18_AtMostThreeRequests ==
  \A t \in DOMAIN trades : \A i \in DOMAIN trades[t].legs :
    trades[t].legs[i].attempts <= 3

(* C19: whatever prices evaluate_trades reads, it emits a forced MKT close  *)
(* for a trade only if the trade is a BAG with original_entry_price > 0, a  *)
(* price could be computed for it and that price is at or below 0.02; the   *)
(* order sells left_qty.                                                    *)
C19_ForcedCloseOnlyAtLowPrice ==
  pc = "evaluate_trades" =>
    \A p \in UndPrices, bid \in BidPrices, lp \in LimitPrices :
      \A tid \in EvalTrades(trades, orders) :
        LET st == EvalTrade([orders |-> orders, messages |-> messages],
                            trades, executions, tid, p, bid, lp, market = "open")
            n == Len(st.orders)
        IN  n > Len(orders) /\ st.orders[n].type = "MKT" =>
              /\ trades[tid].sec = "BAG"
              /\ trades[tid].og > 0
              /\ bid # 0 /\ bid <= PANIC_CLOSE_VALUE
              /\ st.orders[n].action = "SELL"
              /\ st.orders[n].qty = LeftQty(orders, trades, tid)

\* an open trade matches the contract of position row p
Matched(p) ==
  \E t \in DOMAIN trades :
    /\ trades[t].status = "open" /\ ~trades[t].exited
    /\ \/ trades[t].contract = p.contract
       \/ \E i \in DOMAIN trades[t].legs : trades[t].legs[i].contract = p.contract

(* C20: when the orphan check of a cycle has run in market hours, every     *)
(* non-zero position on a contract no open trade matches has a market order *)
(* without trade, exclude = 1, that sells a positive and buys a negative    *)
(* position, of quantity |position|.                                        *)
C20_OrphanPositionsFlattened ==
  pc = "sync_timed_out_orders" /\ market = "open" =>
    \A p \in positions :
      p.position # 0 /\ ~Matched(p) =>
        \E o \in DOMAIN orders :
          /\ orders[o].trade = 0
          /\ orders[o].exclude = 1
          /\ orders[o].contract = p.contract
          /\ orders[o].type = "MKT"
          /\ orders[o].action = (IF p.position > 0 THEN "SELL" ELSE "BUY")
          /\ orders[o].qty = Abs(p.position)

\* the close recorded as fill f improved on the entry price of its trade
Improves(f) ==
  LET t == trades[orders[f.order].trade]
  IN  IF IsShort(t) THEN Abs(f.price) < f.entry
      ELSE IF t.sec = "BAG" /\ t.og < 0 THEN Abs(f.price) <= f.entry
      ELSE Abs(f.price) > f.entry

(* C21: when sync_fills completes a closing order, the notes are 'Target     *)
(* reached' iff the closing price improves on the entry price in the trade's *)
(* favourable direction, and 'Stop loss' otherwise.                          *)
C21_NotesFollowPrice ==
  \A i \in DOMAIN fills :
    fills[i].kind \in {"partial", "full"} =>
      fills[i].notes = (IF Improves(fills[i]) THEN TGT_REACHED ELSE STOP_LOSS)

\* the trade has an order, not excluded, that was filled less than
\* EVAL_ORDER_PAUSE_MINUTES ago
RecentlyFilled(os, tid) ==
  \E x \in DOMAIN os :
    os[x].trade = tid /\ os[x].filled = "recent" /\ os[x].exclude = 0

(* C22: evaluate_trades registers no order for a trade within 60 seconds     *)
(* after a non-excluded order of that trade was filled: the pause of         *)
(* EVAL_ORDER_PAUSE_MINUTES covers the 60 seconds, and no pass registers an  *)
(* order for a trade that has a fill within the pause.                       *)
C22_NoOrderRightAfterFill ==
  [][/\ 60 <= 60 * EVAL_ORDER_PAUSE_MINUTES
     /\ pc = "evaluate_trades" =>
          \A o \in DOMAIN orders' \ DOMAIN orders :
            ~RecentlyFilled(orders, orders'[o].trade)]_vars

\* C22 witness: evaluate_trades has just passed over an open trade whose only
\* lock is the fill of its opening order, and has registered nothing for it
C22_Witness ==
  /\ pc = "place_orders"
  /\ \E t \in DOMAIN trades :
       /\ trades[t].entry # 0 /\ ~trades[t].exited /\ trades[t].u_id # 0
       /\ RecentlyFilled(orders, t)
       /\ \A o \in DOMAIN orders :
            orders[o].trade = t => orders[o].status = "complete"

(* order o is placed and filled and belongs to a trade that sync_fills can  *)
(* account for: a sheet write for it is due in this pass                    *)
SheetWriteDue(o) ==
  LET t == orders[o].trade
  IN  /\ orders[o].status = "placed"
      /\ t # 0
      /\ orders[o].qty # 0
      /\ Filled(o)
      /\ orders[o].action # OpeningAction(trades[t]) =>
            /\ HasTotalQty(orders, trades, t)
            /\ TotalQty(orders, trades, t) # 0
            /\ trades[t].entry # 0
            /\ HasRow(sheet, trades[t].u_id)

(* C23: a failed sheet write during reconcile never blocks a state           *)
(* transition: whatever becomes of the sheet write, the pass of sync_fills   *)
(* completes the filled order, and the trade records its entry or its close  *)
(* in the store.                                                             *)
C23_SheetFailureDoesNotBlock ==
  [][pc = "sync_fills" =>
       \A o \in DOMAIN orders :
         SheetWriteDue(o) =>
           /\ orders'[o].status = "complete"
           /\ LET t == orders[o].trade
              IN  IF orders[o].action = OpeningAction(trades[t])
                    THEN trades'[t].entry # 0
                  ELSE trades'[t].exited \/ Len(trades') > Len(trades)]_vars

(* two rows name the same contract: the same security type and symbol,     *)
(* for an option the same expiry, strike and right, for a spread the same   *)
(* sequence of legs with their option contract, action and ratio            *)
SameContract(a, b) ==
  /\ a.sec = b.sec
  /\ a.symbol = b.symbol
  /\ a.sec = "OPT" =>
        a.expiry = b.expiry /\ a.strike = b.strike /\ a.right = b.right
  /\ a.sec = "BAG" => a.legs = b.legs

(* C24: Contract.key is injective on tradable shapes: two registered trades *)
(* carry the same contract key iff their rows name the same contract.       *)
C24_KeyInjective ==
  \A t1, t2 \in DOMAIN trades :
    (trades[t1].contract = trades[t2].contract)
      <=> SameContract(sheet[trades[t1].row].shape, sheet[trades[t2].row].shape)

\* the price p of the underlying has crossed the stop price of trade t
StopCrossed(t, stop, p) ==
  /\ stop # 0
  /\ p # 0
  /\ IF t.targets[1] > t.und THEN p <= stop ELSE p >= stop

\* the trade has quantity left to close
Remaining(os, ts, tid) ==
  IF IsShort(ts[tid]) THEN BoughtQty(os, tid) - SoldQty(os, tid) < 0
  ELSE BoughtQty(os, tid) - SoldQty(os, tid) > 0

(* C25: for every open, unlocked trade with remaining quantity, whatever     *)
(* fresh price of the underlying has crossed the trade's next stop price,    *)
(* the iteration of evaluate_trades registers a closing order, also when     *)
(* the target list of the trade is exhausted.                                *)
C25_CrossedStopCloses ==
  (pc = "evaluate_trades" /\ market = "open" /\ Len(orders) < MaxOrders) =>
    \A tid \in EvalTrades(trades, orders) :
      \A p \in UndPrices, bid \in BidPrices, lp \in LimitPrices :
        (/\ trades[tid].status = "open"
         /\ Remaining(orders, trades, tid)
         /\ StopCrossed(trades[tid],
                        NextOf(orders, trades, tid, trades[tid].stops), p))
        => Len(EvalTrade([orders |-> orders, messages |-> messages], trades,
                         executions, tid, p, bid, lp, TRUE).orders)
             > Len(orders)

\* the trades evaluate_trades is about to size an order for
Sized ==
  {tid \in EvalTrades(trades, orders) :
     trades[tid].status = "open" /\ HasTotalQty(orders, trades, tid)}

\* the number of completed closing orders of trade tid that count as targets
\* (as stops), and the n-th part of the total quantity
TargetsDone(tid) == Cardinality(TargetOrders(orders, trades, executions, tid))

StopsDone(tid) == Cardinality(StopOrders(orders, trades, executions, tid))

Part(tid, n) == Round(TotalQty(orders, trades, tid), n)

(* C26 as claimed: target_qty is left_qty when the order being sized is the  *)
(* last expected target and round(total_qty / number_of_targets) in every    *)
(* other case, whatever stops have executed; stop_qty likewise with the      *)
(* stops.                                                                    *)
C26_QtyWhateverTheOthers ==
  pc = "evaluate_trades" =>
    \A tid \in Sized :
      /\ TargetQty(orders, trades, executions, tid) =
           (IF TargetsDone(tid) = Len(trades[tid].targets) - 1
              THEN LeftQty(orders, trades, tid)
            ELSE Part(tid, Len(trades[tid].targets)))
      /\ StopQty(orders, trades, executions, tid) =
           (IF StopsDone(tid) = Len(trades[tid].stops) - 1
              THEN LeftQty(orders, trades, tid)
            ELSE Part(tid, Len(trades[tid].stops)))

(* C26 amended: target_qty is left_qty when a stop has executed or the order *)
(* being sized is the last expected target, and the n-th part of total_qty   *)
(* otherwise; stop_qty is left_qty when a target has executed or the order   *)
(* is the last expected stop.                                                *)
C26_QtyLeftAfterTheOthers ==
  pc = "evaluate_trades" =>
    \A tid \in Sized :
      /\ TargetQty(orders, trades, executions, tid) =
           (IF StopsDone(tid) > 0
               \/ TargetsDone(tid) = Len(trades[tid].targets) - 1
              THEN LeftQty(orders, trades, tid)
            ELSE Part(tid, Len(trades[tid].targets)))
      /\ StopQty(orders, trades, executions, tid) =
           (IF TargetsDone(tid) > 0
               \/ StopsDone(tid) = Len(trades[tid].stops) - 1
              THEN LeftQty(orders, trades, tid)
            ELSE Part(tid, Len(trades[tid].stops)))

\* C26 witness: a trade is sized after a stop has executed, with targets
\* left, and what is left is not the n-th part of the total
C26_Witness ==
  /\ pc = "evaluate_trades"
  /\ \E tid \in Sized :
       /\ StopsDone(tid) > 0
       /\ TargetsDone(tid) # Len(trades[tid].targets) - 1
       /\ LeftQty(orders, trades, tid) # Part(tid, Len(trades[tid].targets))

(* C27: every closing order evaluate_trades registers has a positive        *)
(* quantity no larger than the left_qty of its trade at that moment, for     *)
(* long and for short trades.                                                *)
C27_ClosingQtyWithinLeft ==
  [][pc = "evaluate_trades" =>
       \A o \in DOMAIN orders' \ DOMAIN orders :
         /\ orders'[o].qty > 0
         /\ orders'[o].qty <= LeftQty(orders, trades, orders'[o].trade)]_vars

\* C27 witness: evaluate_trades has just registered an order that closes a
\* part of a short trade
C27_Witness ==
  /\ pc = "place_orders"
  /\ \E o \in DOMAIN orders :
       /\ orders[o].status = "ready"
       /\ orders[o].trade # 0
       /\ IsShort(trades[orders[o].trade])
       /\ orders[o].action = "BUY"
       /\ orders[o].qty < TotalQty(orders, trades, orders[o].trade)

\* the orders of trade tid that open it
OpeningOrders(os, tid) ==
  {o \in DOMAIN os : /\ os[o].trade = tid
                     /\ os[o].action = OpeningAction(trades[tid])
                     /\ os[o].exclude = 0}

(* C28: for each open trade without entry_price, sync_opening_orders         *)
(* registers exactly one ready opening order over all cycles, of quantity    *)
(* total_qty, SELL for a short trade and BUY for a long trade and for every  *)
(* spread, and none for a trade with unresolved legs.                        *)
C28_OneOpeningOrder ==
  [][pc = "sync_opening_orders" =>
       /\ \A o \in DOMAIN orders' \ DOMAIN orders :
            LET tid == orders'[o].trade
            IN  /\ trades[tid].status = "open" /\ trades[tid].entry = 0
                /\ HasValidLegs(trades[tid])
                /\ orders'[o].status = "ready"
                /\ orders'[o].qty = TotalQty(orders, trades, tid)
                /\ orders'[o].action =
                     (IF trades[tid].sec # "BAG" /\ trades[tid].size < 0
                        THEN "SELL" ELSE "BUY")
                /\ OpeningOrders(orders', tid) = {o}
       /\ \A tid \in DOMAIN trades :
            (/\ trades[tid].status = "open" /\ trades[tid].entry = 0
             /\ trades[tid].og # 0 /\ trades[tid].u_id # 0
             /\ ~trades[tid].exited
             /\ HasValidLegs(trades[tid])
             /\ OpeningOrders(orders, tid) = {})
            => Cardinality(OpeningOrders(orders', tid)) = 1]_vars

\* the orders of spreads that have executions
SpreadOrders ==
  {o \in DOMAIN orders : /\ orders[o].trade # 0
                         /\ trades[orders[o].trade].sec = "BAG"
                         /\ orders[o].request_id # 0
                         /\ ExecutionsByOrderId(executions,
                                                orders[o].request_id) # {}}

\* q is the minimum over the legs of leg shares / leg ratio
IsLegMinimum(o, q) ==
  LET legs == trades[orders[o].trade].legs
  IN  /\ \A l \in DOMAIN legs :
           q * legs[l].ratio <= LegShares(executions, ValidOf(o), legs[l])
      /\ \E l \in DOMAIN legs :
           q * legs[l].ratio = LegShares(executions, ValidOf(o), legs[l])

\* every leg has a valid execution of exactly order.qty times its ratio
EveryLegFilled(o) ==
  LET legs == trades[orders[o].trade].legs
  IN  \A l \in DOMAIN legs :
        \E i \in ValidOf(o) :
          /\ executions[i].contract = legs[l].contract
          /\ executions[i].cum_qty = orders[o].qty * legs[l].ratio

(* C29 as claimed: for the order of a spread get_executed_qty returns the    *)
(* minimum over the legs of leg executed shares / leg ratio.                 *)
C29_BagQtyIsLegMinimum ==
  \A o \in SpreadOrders :
    IsLegMinimum(o, ExecutedQty(executions, trades, orders[o], ValidOf(o)))

(* C29 amended: for the order of a spread get_executed_qty returns order.qty *)
(* when every leg has a valid execution of order.qty times the leg ratio,    *)
(* and 0 otherwise; the order is complete only in the first case.            *)
C29_BagQtyIsAllOrNothing ==
  \A o \in SpreadOrders :
    /\ ExecutedQty(executions, trades, orders[o], ValidOf(o)) =
         (IF EveryLegFilled(o) THEN orders[o].qty ELSE 0)
    /\ orders[o].status = "complete" => EveryLegFilled(o)

\* C29 witness: sync_fills has passed over the placed order of a spread of
\* which every leg is executed in part, and has left it placed
C29_Witness ==
  /\ pc = "process_trade_messages"
  /\ \E o \in SpreadOrders :
       /\ orders[o].status = "placed"
       /\ ~EveryLegFilled(o)
       /\ \A l \in DOMAIN trades[orders[o].trade].legs :
            LegShares(executions, ValidOf(o),
                      trades[orders[o].trade].legs[l]) > 0

\* ---------------------------------------------------------------- C30
\* some trade that is neither closed, in error nor exited uses contract k
Referenced(ts, k) ==
  \E t \in DOMAIN ts :
     /\ ts[t].status \notin {"closed", "error"}
     /\ ~ts[t].exited
     /\ \/ k = ts[t].contract /\ ts[t].sec # "BAG"
        \/ k = [ts[t].contract EXCEPT !.k = "SYM", !.expiry = 0, !.strike = 0,
                                      !.right = "", !.legs = <<>>]
        \/ ts[t].sec = "BAG" /\ \E i \in DOMAIN ts[t].legs :
                                    k = ts[t].legs[i].contract

ClosingSell(a) ==
  /\ a.at \in {"done", "raised"}
  /\ a.size_open > 0 /\ a.qty <= a.size_open
  /\ ~a.execution /\ a.execute_trades /\ ~a.locked

\* the portfolio holds at least qty of the contract of the trade
Covered(a) ==
  \E r \in a.portfolio.rows : r.key = a.c_key /\ r.position >= a.qty

(* C31: when the held position does not cover a closing SELL, no order is    *)
(* placed, the close is recorded on the sheet and the operator is notified;  *)
(* when it covers the quantity, the order is placed for the full quantity.   *)
C31_CheckedClose ==
  ClosingSell(app) =>
    IF Covered(app)
      THEN app.placed = app.qty /\ app.placed_action = "SELL"
    ELSE app.placed = 0 /\ app.sheet_closed /\ app.notified

\* ---------------------------------------------------------------- C32
(* C32: ingesting a row whose tactic cannot be parsed never aborts the      *)
(* ingest: after sync_gsheet_trades every row has its trade, the trade of    *)
(* a row with a bad tactic is in error with a 99995 message, and the phase   *)
(* has not raised.                                                            *)
C32_BadTacticDoesNotAbort ==
  [][pc = "sync_gsheet_trades" /\ ~test_mode /\ market = "open" =>
       /\ pc' # "dead"
       /\ \A i \in DOMAIN sheet :
            /\ \E t \in DOMAIN trades' : trades'[t].row = i
            /\ sheet[i].shape.tactic # "parsed" =>
                 \E t \in DOMAIN trades' :
                    /\ trades'[t].row = i
                    /\ trades'[t].status = "error"
                    /\ \E m \in DOMAIN messages' :
                         /\ messages'[m].trade = t
                         /\ messages'[m].code = CODE_TACTIC]_vars

\* ---------------------------------------------------------------- C33
\* the shares order o has bought (side "BOT") or sold ("SLD") on contract k:
\* the largest cumulative quantity among its valid executions
SharesOf(o, k, side) ==
  LET ids == {i \in ValidOf(o) : executions[i].contract = k
                                  /\ executions[i].side = side}
  IN  IF ids = {} THEN 0 ELSE MaxCumQty(executions, ids)

RECURSIVE NetSum(_, _, _)
NetSum(todo, k, acc) ==
  IF todo = {} THEN acc
  ELSE LET o == CHOOSE x \in todo : TRUE
       IN  NetSum(todo \ {o}, k,
                  acc + SharesOf(o, k, "BOT") - SharesOf(o, k, "SLD"))

\* the shares the orders of trade tid have bought net of those sold
NetShares(tid, k) ==
  NetSum({o \in DOMAIN orders : orders[o].trade = tid}, k, 0)

(* C33: register_forced_trade_close registers, for each contract on which   *)
(* the valid executions of the trade's orders net to a non-zero share       *)
(* count, exactly one ready order with the given exclude flag, SELL for a    *)
(* net bought and BUY for a net sold, of qty |net|; a contract netting to    *)
(* zero gets no order.                                                        *)
C33_ForcedCloseFlattens ==
  \A tid \in DOMAIN trades : \A exclude \in {0, 1} :
    LET r == RegisterForcedTradeClose(orders, executions, tid, exclude)
        new == (DOMAIN r.orders) \ (DOMAIN orders)
    IN  \A k \in {executions[i].contract : i \in DOMAIN executions} :
          LET n == NetShares(tid, k)
              on == {o \in new : r.orders[o].contract = k}
          IN  IF n = 0 THEN on = {}
              ELSE /\ r.ok
                   /\ Cardinality(on) = 1
                   /\ \A o \in on :
                        /\ r.orders[o].status = "ready"
                        /\ r.orders[o].exclude = exclude
                        /\ r.orders[o].action = IF n > 0 THEN "SELL" ELSE "BUY"
                        /\ r.orders[o].qty = Abs(n)

\* ---------------------------------------------------------------- C34
\* the orders of trade tid that are not excluded and wait for the broker
LiveOrders(os, tid) ==
  {o \in DOMAIN os : /\ os[o].trade = tid
                      /\ os[o].exclude = 0
                      /\ os[o].status \in {"ready", "placed"}}

(* C34: in every reachable state each trade has at most one order that is   *)
(* not excluded and in status ready or placed.                                *)
C34_OneLiveOrderPerTrade ==
  \A tid \in DOMAIN trades : Cardinality(LiveOrders(orders, tid)) <= 1

\* ---------------------------------------------------------------- C35
\* the sheet, ib_trades and the uid clock after one more ingest of st
IngestOnce(st) == RegisterTrades(st, 1)

(* C35: ingest is idempotent: right after sync_gsheet_trades has run, a     *)
(* second run on the sheet it left creates no further trade (with its       *)
(* legs) and writes nothing to the sheet, whatever rows pass the ingest      *)
(* filter.                                                                    *)
C35_IngestIdempotent ==
  pc = "request_ib_contract_ids" =>
    LET again == IngestOnce([sheet |-> sheet, trades |-> trades,
                             uid |-> uid_clock])
    IN  again.trades = trades /\ again.sheet = sheet

\* ---------------------------------------------------------------- C36
(* C36: an error the gateway answers on the request id of an order is never *)
(* lost: once place_order has committed, the order of every request id it    *)
(* has answered is in status error and the message is attached to the trade *)
(* of the order.                                                              *)
C36_ErrorNeverLost ==
  \A r \in wire.failed :
    r # wire.sent.rid =>
      \E o \in DOMAIN orders :
        /\ orders[o].request_id = r
        /\ orders[o].status = "error"
        /\ orders[o].trade # 0 =>
             \E m \in DOMAIN messages :
               /\ messages[m].trade = orders[o].trade
               /\ messages[m].request_id = r

\* ---------------------------------------------------------------- C37
(* C37: in every reachable state a subscription flagged active holds a      *)
(* request id of the gateway, also after the supervisor has started again.  *)
C37_ActiveHasRequestId == active \subseteq subs

\* ---------------------------------------------------------------- C38
\* the flattening orders on contract k that are still ready or placed
FlatteningOrders(k) ==
  {o \in DOMAIN orders : /\ orders[o].trade = 0
                         /\ orders[o].exclude = 1
                         /\ orders[o].contract = k
                         /\ orders[o].status \in {"ready", "placed"}}

Cancels(ms, tid) ==
  Cardinality({j \in DOMAIN ms : ms[j].trade = tid /\ ms[j].code = CODE_CANCELLED})

\* what a run of process_trade_messages does about the open 202 message i
CancelHandled(i) ==
  LET m == messages[i]
      tid == m.trade
      orig == {o \in DOMAIN orders : /\ orders[o].trade = tid
                                     /\ orders[o].request_id = m.request_id}
      added == {o \in DOMAIN orders' : /\ o \notin DOMAIN orders
                                       /\ orders'[o].trade = tid}
  IN  IF ~HasOpeningOrder(orders, trades, tid) \/ Cancels(messages, tid) >= 3
        THEN trades'[tid].status = "error" /\ added = {}
      ELSE /\ trades'[tid].status = trades[tid].status
           /\ \A o \in orig :
                /\ Cardinality(added) = 1
                /\ \A a \in added : /\ orders'[a].action = orders[o].action
                                     /\ orders'[a].qty = orders[o].qty
                                     /\ orders'[a].status = "ready"

(* C39: when process_trade_messages meets the 202 message of a cancelled    *)
(* closing order it registers one replacement with the action and quantity  *)
(* of the cancelled order, as long as the trade has fewer than three 202    *)
(* messages; at the third the trade goes to error without a replacement,    *)
(* and a 202 that leaves the trade without opening order sets it to error.  *)
C39_CancelledOrderReplaced ==
  [][pc = "process_trade_messages" /\ pc' # pc =>
       \A i \in DOMAIN messages :
         /\ messages[i].status = "open"
         /\ messages[i].code = CODE_CANCELLED
         /\ messages[i].trade # 0
         /\ trades[messages[i].trade].status \notin {"closed", "error"}
         => CancelHandled(i)]_vars

\* the third cancellation has put the trade in error after two replacements
C39_Witness ==
  \E t \in DOMAIN trades :
    /\ trades[t].status = "error"
    /\ Cancels(messages, t) = 3
    /\ \A j \in DOMAIN messages : messages[j].status = "resolved"
    /\ Cardinality({o \in DOMAIN orders :
                      orders[o].trade = t /\ orders[o].status = "error"}) = 3

\* ---------------------------------------------------------------- C40
\* order o is on a spread with a leg the gateway has not resolved
LegUnresolved(o) ==
  /\ orders[o].trade # 0
  /\ trades[orders[o].trade].sec = "BAG"
  /\ \E i \in DOMAIN trades[orders[o].trade].legs :
       ~trades[orders[o].trade].legs[i].con_id

(* C40: while a leg of its trade lacks the contract id of the broker, an    *)
(* order on a BAG contract is not placed: no step makes it placed or gives  *)
(* it a request id, and no placed order is in that case.                     *)
C40_UnresolvedBagNotPlaced ==
  [][\A o \in DOMAIN orders :
       LegUnresolved(o) =>
         /\ orders[o].status # "placed"
         /\ orders'[o].status # "placed"
         /\ orders'[o].request_id = orders[o].request_id]_vars

\* place_orders has passed over the ready order of an unresolved spread
C40_Witness ==
  /\ pc = "maybe_request_executions"
  /\ market = "open"
  /\ \E o \in DOMAIN orders :
       /\ LegUnresolved(o)
       /\ orders[o].status = "ready"
       /\ orders[o].request_id = 0

====
